---- MODULE Spec2Model ----
(***************************************************************************)
(* A model of the AI orchestrator: the step selector (llm_integration.py), *)
(* the parameter extractor and the pipeline executor (orchestrator.py).    *)
(*                                                                         *)
(* Text is a sequence of one-character strings, so that lower-casing,      *)
(* substring search and the length pattern are computed, not assumed.      *)
(***************************************************************************)
EXTENDS Integers, Sequences, FiniteSets, TLC

(***************************************************************************)
(* Bounds of the model.                                                    *)
(***************************************************************************)
\* longest request, in words, that the selector specification enumerates
MaxWords == 2
\* longest name list a classifier response carries (selector specification)
MaxItems == 2
\* longest plan the classifier hands to the executor (executor specification)
MaxSteps == 2

(***************************************************************************)
(* Text helpers: str.lower() and the `in` substring test.                  *)
(***************************************************************************)
UpperLetters == <<"A", "B", "C", "D", "E", "F", "G", "H", "I", "J", "K", "L", "M",
                  "N", "O", "P", "Q", "R", "S", "T", "U", "V", "W", "X", "Y", "Z">>
LowerLetters == <<"a", "b", "c", "d", "e", "f", "g", "h", "i", "j", "k", "l", "m",
                  "n", "o", "p", "q", "r", "s", "t", "u", "v", "w", "x", "y", "z">>

LowerChar(c) ==
    IF \E i \in 1..26 : UpperLetters[i] = c
    THEN LowerLetters[CHOOSE i \in 1..26 : UpperLetters[i] = c]
    ELSE c

Lower(s) == [i \in 1..Len(s) |-> LowerChar(s[i])]

HasAt(s, k, p) ==
    /\ p >= 1
    /\ p + Len(k) - 1 <= Len(s)
    /\ SubSeq(s, p, p + Len(k) - 1) = k

Contains(s, k) == \E p \in 1..(Len(s) + 1) : HasAt(s, k, p)

IsSpace(c) == c \in {" ", "\t", "\n", "\r", "\f"}
IsDigit(c) == c \in {"0", "1", "2", "3", "4", "5", "6", "7", "8", "9"}

\* last index of the maximal run of whitespace (digits) that starts at p;
\* p - 1 when s[p] is not in the class or p is past the end
SpaceRunEnd(s, p) ==
    CHOOSE q \in (p - 1)..Len(s) :
        /\ (q = Len(s) \/ ~IsSpace(s[q + 1]))
        /\ \A j \in p..q : IsSpace(s[j])

DigitRunEnd(s, p) ==
    CHOOSE q \in (p - 1)..Len(s) :
        /\ (q = Len(s) \/ ~IsDigit(s[q + 1]))
        /\ \A j \in p..q : IsDigit(s[j])

\* first index of the whitespace run that ends at q (s[q] is whitespace)
SpaceRunStart(s, q) ==
    CHOOSE b \in 1..q :
        /\ \A j \in b..q : IsSpace(s[j])
        /\ (b = 1 \/ ~IsSpace(s[b - 1]))

DigitValue(c) ==
    CASE c = "0" -> 0 [] c = "1" -> 1 [] c = "2" -> 2 [] c = "3" -> 3 [] c = "4" -> 4
      [] c = "5" -> 5 [] c = "6" -> 6 [] c = "7" -> 7 [] c = "8" -> 8 [] c = "9" -> 9

RECURSIVE ToInt(_)
ToInt(ds) ==
    IF ds = <<>> THEN 0
    ELSE 10 * ToInt(SubSeq(ds, 1, Len(ds) - 1)) + DigitValue(ds[Len(ds)])

SetMin(S) == CHOOSE x \in S : \A y \in S : x <= y

(***************************************************************************)
(* Keywords of the source, as text.                                        *)
(***************************************************************************)
K_clean == <<"c", "l", "e", "a", "n">>
K_remove == <<"r", "e", "m", "o", "v", "e">>
K_sentiment == <<"s", "e", "n", "t", "i", "m", "e", "n", "t">>
K_analyze == <<"a", "n", "a", "l", "y", "z", "e">>
K_feeling == <<"f", "e", "e", "l", "i", "n", "g">>
K_emotion == <<"e", "m", "o", "t", "i", "o", "n">>
K_positive == <<"p", "o", "s", "i", "t", "i", "v", "e">>
K_negative == <<"n", "e", "g", "a", "t", "i", "v", "e">>
K_summarize == <<"s", "u", "m", "m", "a", "r", "i", "z", "e">>
K_summary == <<"s", "u", "m", "m", "a", "r", "y">>
K_shorten == <<"s", "h", "o", "r", "t", "e", "n">>
K_brief == <<"b", "r", "i", "e", "f">>
K_concise == <<"c", "o", "n", "c", "i", "s", "e">>
K_parallel == <<"p", "a", "r", "a", "l", "l", "e", "l">>
K_concurrently == <<"c", "o", "n", "c", "u", "r", "r", "e", "n", "t", "l", "y">>
K_to == <<"t", "o">>
K_sentences == <<"s", "e", "n", "t", "e", "n", "c", "e", "s">>

(***************************************************************************)
(* The step registry (LLMDecisionEngine.available_containers).             *)
(***************************************************************************)
available_containers == {"data-cleaning", "sentiment-analysis", "text-summarization"}

(***************************************************************************)
(* Orchestrator.extract_parameters.                                        *)
(* The pattern  summarize\s+.*?\s+to\s+(\d+)\s+sentences  is searched in   *)
(* the lower-cased request.  TailOk(s, p): "to" starts at p and the rest   *)
(* of the pattern, \s+(\d+)\s+sentences, follows it.                       *)
(***************************************************************************)
TailDigitsStart(s, p) == SpaceRunEnd(s, p + 2) + 1
TailDigitsEnd(s, p) == DigitRunEnd(s, TailDigitsStart(s, p))

TailOk(s, p) ==
    /\ HasAt(s, K_to, p)
    /\ TailDigitsStart(s, p) > p + 2
    /\ TailDigitsEnd(s, p) >= TailDigitsStart(s, p)
    /\ SpaceRunEnd(s, TailDigitsEnd(s, p) + 1) > TailDigitsEnd(s, p)
    /\ HasAt(s, K_sentences, SpaceRunEnd(s, TailDigitsEnd(s, p) + 1) + 1)

\* the positions of "to" the backtracking search accepts when "summarize"
\* starts at i: first (greedy \s+, lazy .*?) the leftmost "to" after a later
\* whitespace run with no newline in between; failing that, the "to" right
\* after the first whitespace run, when that run has at least two characters
LateTos(s, i) ==
    LET amax == SpaceRunEnd(s, i + 9)
    IN  {p \in (amax + 2)..Len(s) :
            /\ IsSpace(s[p - 1])
            /\ \A j \in (amax + 1)..(SpaceRunStart(s, p - 1) - 1) : s[j] # "\n"
            /\ TailOk(s, p)}

MatchTo(s, i) ==
    LET amax == SpaceRunEnd(s, i + 9)
    IN  IF ~HasAt(s, K_summarize, i) \/ amax < i + 9 THEN 0
        ELSE IF LateTos(s, i) # {} THEN SetMin(LateTos(s, i))
        ELSE IF amax >= i + 10 /\ TailOk(s, amax + 1) THEN amax + 1
        ELSE 0

MatchStarts(s) == {i \in 1..Len(s) : MatchTo(s, i) # 0}

summary_length_match(s) == MatchStarts(s) # {}

\* summary_length_match.group(1): the digits the pattern captured
summary_length_digits(s) ==
    LET p == MatchTo(s, SetMin(MatchStarts(s)))
    IN  SubSeq(s, TailDigitsStart(s, p), TailDigitsEnd(s, p))

\* int(str) of line 32: CPython refuses to convert a decimal string of more
\* than 4300 digits and raises ValueError
IntMaxStrDigits == 4300

int_raises(ds) == Len(ds) > IntMaxStrDigits

summary_length_group(s) == ToInt(summary_length_digits(s))

parallel_hint(user_request) ==
    \/ Contains(Lower(user_request), K_parallel)
    \/ Contains(Lower(user_request), K_concurrently)

\* line 32 raises: nothing is returned, the exception leaves the call
extract_parameters_raises(user_request) ==
    LET s == Lower(user_request)
    IN  summary_length_match(s) /\ int_raises(summary_length_digits(s))

\* the map of lines 27-40, for a request on which line 32 does not raise
extract_parameters(user_request) ==
    LET s == Lower(user_request)
        keys == (IF summary_length_match(s) THEN {"summary_length"} ELSE {})
                \cup (IF parallel_hint(user_request) THEN {"parallel_execution"} ELSE {})
    IN  [k \in keys |-> IF k = "summary_length" THEN summary_length_group(s) ELSE TRUE]

\* params.get('parallel_execution', False)
params_parallel(p) ==
    IF "parallel_execution" \in DOMAIN p THEN p["parallel_execution"] ELSE FALSE

(***************************************************************************)
(* LLMDecisionEngine._mock_determine_containers: the heuristic selector.   *)
(***************************************************************************)
AnyWord(s, ks) == \E k \in ks : Contains(s, k)

\* mutant: no default, an unmatched request gets an empty plan
mock_default_empty == <<>>

\* line 183
mock_default == <<"data-cleaning">>

\* mutant: a step is added for every keyword of its group that matches
mock_determine_containers_per_keyword(user_request) ==
    LET request_lower == Lower(user_request)
        Hits(name, ks) == [i \in 1..Cardinality({k \in ks : Contains(request_lower, k)})
                              |-> name]
        containers == Hits("data-cleaning", {K_clean, K_remove})
                      \o Hits("sentiment-analysis", {K_sentiment, K_analyze, K_feeling,
                                                     K_emotion, K_positive, K_negative})
                      \o Hits("text-summarization", {K_summarize, K_summary, K_shorten,
                                                     K_brief, K_concise})
    IN  IF containers = <<>> THEN mock_default ELSE containers

\* mutant: every matched step is planned twice
mock_determine_containers_doubled(user_request) ==
    mock_determine_containers_per_keyword(user_request)
    \o mock_determine_containers_per_keyword(user_request)

mock_determine_containers(user_request) ==
    LET request_lower == Lower(user_request)
        c1 == IF Contains(request_lower, K_clean) \/ Contains(request_lower, K_remove)
              THEN <<"data-cleaning">> ELSE <<>>
        c2 == IF AnyWord(request_lower, {K_sentiment, K_analyze, K_feeling,
                                         K_emotion, K_positive, K_negative})
              THEN <<"sentiment-analysis">> ELSE <<>>
        c3 == IF AnyWord(request_lower, {K_summarize, K_summary, K_shorten,
                                         K_brief, K_concise})
              THEN <<"text-summarization">> ELSE <<>>
        containers == c1 \o c2 \o c3
    IN  IF containers = <<>> THEN mock_default ELSE containers

(***************************************************************************)
(* JSON values as json.loads yields them.  A value is a record             *)
(*   t: "str" | "num" | "null" | "list" | "dict",                          *)
(*   s: the text of a str, or the single key of a dict ("" if empty),      *)
(*   items: the elements of a list, or the one value of a dict.            *)
(***************************************************************************)
JStr(x) == [t |-> "str", s |-> x, items |-> <<>>]
JNum == [t |-> "num", s |-> "", items |-> <<>>]
JNull == [t |-> "null", s |-> "", items |-> <<>>]
JList(xs) == [t |-> "list", s |-> "", items |-> xs]
JDict(key, v) == [t |-> "dict", s |-> key, items |-> <<v>>]
JEmptyDict == [t |-> "dict", s |-> "", items |-> <<>>]

\* the characters of the strings the model iterates over
StrChars(x) ==
    CASE x = "" -> <<>>
      [] x = "data-cleaning" ->
           <<"d", "a", "t", "a", "-", "c", "l", "e", "a", "n", "i", "n", "g">>
      [] x = "x" -> <<"x">>

\* isinstance(result, dict) and "containers" in result
HasContainersKey(v) == v.t = "dict" /\ v.items # <<>> /\ v.s = "containers"

\* `for container in containers`: what the loop visits, or the TypeError
\* Python raises for a value that is not iterable
IsIterable(v) == v.t \in {"list", "dict", "str"}

IterItems(v) ==
    CASE v.t = "list" -> v.items
      [] v.t = "dict" -> IF v.items = <<>> THEN <<>> ELSE <<JStr(v.s)>>
      [] v.t = "str" -> [i \in 1..Len(StrChars(v.s)) |-> JStr(StrChars(v.s)[i])]

\* bool(containers) of an iterable value
Truthy(v) == IterItems(v) # <<>>

\* `container in self.available_containers` hashes the value: a list or a
\* dict raises TypeError
\* mutant: every string is taken for a name of the registry
InRegistry_any_str(v) == v.t = "str"

IsHashable(v) == v.t \notin {"list", "dict"}
InRegistry(v) == v.t = "str" /\ v.s \in available_containers

(***************************************************************************)
(* The classifier call (client.chat.completions.create) as the selector    *)
(* sees it: it raises, or it yields a content that is None, text that is   *)
(* not JSON, or text that json.loads parses to `value`.                    *)
(***************************************************************************)
LLMRaise(e) == [kind |-> "raise", exc |-> e, value |-> JNull]
LLMNoContent == [kind |-> "none", exc |-> "", value |-> JNull]
LLMNotJson == [kind |-> "nonjson", exc |-> "", value |-> JNull]
LLMJson(v) == [kind |-> "json", exc |-> "", value |-> v]

\* the outcome of evaluating Python code: a returned plan or a raised exception
Return(plan) == [exc |-> "", plan |-> plan]
Raise(e) == [exc |-> e, plan |-> <<>>]

\* mutant: the fallback of lines 143-145 is missing
validate_containers_no_fallback(containers, user_request) ==
    IF ~IsIterable(containers) THEN Raise("TypeError")
    ELSE LET items == IterItems(containers)
             valid == SelectSeq(items, InRegistry)
         IN  IF \E i \in 1..Len(items) : ~IsHashable(items[i]) THEN Raise("TypeError")
             ELSE Return([i \in 1..Len(valid) |-> valid[i].s])

\* lines 136-148: validation of the names, with the fallback of lines 143-145
validate_containers(containers, user_request) ==
    IF ~IsIterable(containers) THEN Raise("TypeError")
    ELSE LET items == IterItems(containers)
             valid == SelectSeq(items, InRegistry)
         IN  IF \E i \in 1..Len(items) : ~IsHashable(items[i]) THEN Raise("TypeError")
             ELSE IF valid = <<>> /\ Truthy(containers)
                  THEN Return(mock_determine_containers(user_request))
                  ELSE Return([i \in 1..Len(valid) |-> valid[i].s])

\* lines 126-133: the shapes accepted
response_containers(result) ==
    IF HasContainersKey(result) THEN result.items[1]
    ELSE IF result.t = "list" THEN result
    ELSE JList(<<>>)

\* lines 124-148: the body of the inner try
inner_try_body(response, user_request) ==
    IF response.kind = "nonjson" THEN Raise("JSONDecodeError")
    ELSE validate_containers(response_containers(response.value), user_request)

\* mutant: a response that is not JSON yields an empty plan
inner_except_empty(out, user_request) ==
    IF out.exc = "JSONDecodeError" THEN Return(<<>>) ELSE out

\* lines 150-154: except json.JSONDecodeError
inner_except(out, user_request) ==
    IF out.exc = "JSONDecodeError"
    THEN Return(mock_determine_containers(user_request))
    ELSE out

\* mutant: an answer without content is taken for an empty plan
outer_try_body_none_is_empty(response, user_request) ==
    CASE response.kind = "raise" -> Raise(response.exc)
      [] response.kind = "none" -> Return(<<>>)
      [] OTHER -> inner_except(inner_try_body(response, user_request), user_request)

\* lines 106-122: the call and the read of the content
outer_try_body(response, user_request) ==
    CASE response.kind = "raise" -> Raise(response.exc)
      [] response.kind = "none" -> Raise("TypeError")
      [] OTHER -> inner_except(inner_try_body(response, user_request), user_request)

\* mutant: only the errors of the transport are caught
outer_catches_transport_only(e) == e \in {"APITimeoutError", "APIConnectionError"}

\* line 156: `except Exception` catches every exception of the model
outer_catches(e) == e # ""

\* mutant: a failed call yields an empty plan
outer_except_empty(out, user_request) ==
    IF outer_catches(out.exc) THEN Return(<<>>) ELSE out

\* lines 156-159
outer_except(out, user_request) ==
    IF outer_catches(out.exc)
    THEN Return(mock_determine_containers(user_request))
    ELSE out

\* LLMDecisionEngine.determine_containers
determine_containers(mock, response, user_request) ==
    IF mock THEN Return(mock_determine_containers(user_request))
    ELSE outer_except(outer_try_body(response, user_request), user_request)

(***************************************************************************)
(* The state of one invocation of Orchestrator.process_request.            *)
(***************************************************************************)
VARIABLES
    use_mock,          \* self.llm.use_mock
    llm_response,      \* what the classifier call yields when it is made
    user_request,      \* argument: the request text
    input_text,        \* argument, then the local: None or a text (its length)
    input_file,        \* argument: no path, an unreadable path, a readable file
    pc,                \* where process_request stands
    params,            \* extract_parameters(user_request)
    selector_calls,    \* the calls of determine_containers made so far
    containers,        \* the execution plan
    temp_dir,          \* the temporary directory exists
    temp_created,      \* the temporary directory was created in this run
    files,             \* the files of the temporary directory: path -> content
    use_parallel,
    container_files,   \* name -> [input, output] (parallel mode)
    step,              \* position -> state and result of its _run_container call
    results,
    current_input,     \* sequential mode: the next step's input path
    final_output_file,
    ret,               \* what process_request returned or raised
    calls,             \* the calls of _mock_determine_containers made so far
    http,              \* the /process request being served and its response
    runs,              \* concurrent process_request invocations: id -> its locals
    disk,              \* the temporary directories of all runs: name -> files
    proc               \* a step script's process: its arguments, files and exit

\* the variables outside a single process_request invocation
other_vars == <<calls, http, runs, disk, proc>>

vars == <<use_mock, llm_response, user_request, input_text, input_file, pc, params,
          selector_calls, containers, temp_dir, temp_created, files, use_parallel,
          container_files, step, results, current_input, final_output_file, ret,
          other_vars>>

\* the values of those variables where their component takes no part
NoCalls == <<>>
NoHttp == [phase |-> "none"]
NoRuns == <<>>
NoDisk == [d \in {} |-> {}]
NoProc == [phase |-> "none"]

OthersIdle ==
    /\ calls = NoCalls
    /\ http = NoHttp
    /\ runs = NoRuns
    /\ disk = NoDisk
    /\ proc = NoProc

\* Python values
None == [none |-> TRUE, len |-> 0]
Text(n) == [none |-> FALSE, len |-> n]
NoFile == [given |-> FALSE, readable |-> FALSE, len |-> 0]
Unreadable == [given |-> TRUE, readable |-> FALSE, len |-> 0]
File(n) == [given |-> TRUE, readable |-> TRUE, len |-> n]

\* paths of the temporary directory: input.txt and output_<i>.txt
NoPath == <<"none", 0>>
InputPath == <<"input.txt", 0>>
\* mutant: a step works in place, on the staged input file
OutputPath_in_place(i) == InputPath

OutputPath(i) == <<"output.txt", i>>

\* file contents, by who wrote them: the staged input, the empty file
\* _run_container creates for position `by`, or the output of that position's
\* subprocess
InputContent == [kind |-> "input", by |-> 0]
EmptyBy(i) == [kind |-> "empty", by |-> i]
OutputBy(i) == [kind |-> "output", by |-> i]
NoContent == [kind |-> "", by |-> 0]

WriteFile(fs, path, content) ==
    [q \in (DOMAIN fs) \cup {path} |-> IF q = path THEN content ELSE fs[q]]

NoFiles == [q \in {} |-> NoContent]

\* the error records and the run record process_request returns
ErrorRecord(msg) == [kind |-> "error", error |-> msg]
ReadInputError == "Could not read input file: <e>"
NoInputError == "No input text provided"
NoPlanError == "Could not determine which containers to run"
Raised(e) == [kind |-> "raise", exc |-> e]
NotReturned == [kind |-> "none"]

\* the state of a position's _run_container call: `fault` is the exception
\* raised inside the call ("" for none), `returncode` the exit status of the
\* subprocess (-1 before it exits) and `stderr` its captured stderr text
Pending == [phase |-> "pending", input |-> NoPath, output |-> NoPath, argv |-> <<>>,
            collected |-> FALSE, fault |-> "", returncode |-> -1, stderr |-> "",
            result |-> [status |-> ""]]

Positions == 1..Len(containers)

(***************************************************************************)
(* Orchestrator._run_container, in two halves: up to the launch of the     *)
(* subprocess (lines 44-79) and from its exit on (lines 81-110).           *)
(***************************************************************************)
SuccessResult(container, output_file, preview) ==
    [container |-> container, status |-> "success",
     output_file |-> output_file, output_preview |-> preview]

ErrorResult(container, msg) ==
    [container |-> container, status |-> "error", error |-> msg]

\* mutant: the captured text is reported as it is, empty or not
error_msg_raw(stderr) == stderr

\* line 94: e.stderr if e.stderr else "Unknown error occurred"
error_msg(stderr) == IF stderr # "" THEN stderr ELSE "Unknown error occurred"

\* str(e) of lines 109 and 197
str_of(e) == "<" \o e \o ">"

\* mutant: only the exit status of the subprocess is handled
run_container_catches_exit_only(e) == e = "CalledProcessError"

\* lines 92 and 102: `except subprocess.CalledProcessError` and then
\* `except Exception` handle every exception raised in the try block
run_container_catches(e) == e \in {"CalledProcessError", "OSError", "FileNotFoundError"}

\* lines 92-110: the result of a call in which `e` was raised; a call that
\* handles it returns an error result, otherwise `e` leaves the call
run_container_except(st, i, e, stderr) ==
    IF ~run_container_catches(e)
    THEN [st EXCEPT ![i].phase = "raised", ![i].fault = e]
    ELSE IF e = "CalledProcessError"
    THEN [st EXCEPT ![i].phase = "failed", ![i].fault = e,
                    ![i].result = ErrorResult(containers[i], error_msg(stderr))]
    ELSE [st EXCEPT ![i].phase = "failed", ![i].fault = e,
                    ![i].result = ErrorResult(containers[i], str_of(e))]

\* the arguments the subprocess of a step is given after the image name
PathArg(path) == [kind |-> "path", path |-> path]
LengthArg(n) == [kind |-> "length", value |-> n]

\* mutant: the length is handed to every step
trailing_args_any_step(container, p) ==
    IF "summary_length" \in DOMAIN p THEN <<LengthArg(p["summary_length"])>> ELSE <<>>

\* lines 66-67: str(params['summary_length']) is appended for the
\* summarization step only
trailing_args(container, p) ==
    IF container = "text-summarization" /\ "summary_length" \in DOMAIN p
    THEN <<LengthArg(p["summary_length"])>>
    ELSE <<>>

\* lines 57-67: the input and the output file are mounted at fixed paths
\* of the container, and these two paths are its first arguments
docker_cmd(container, p) ==
    <<PathArg("/app/input.txt"), PathArg("/app/output.txt")>> \o trailing_args(container, p)

\* lines 47-51 create the empty output file; `fault`: open() fails, and
\* the command of lines 57-67 is never built
run_container_open(st, i, inp, out, fault) ==
    LET called == [st EXCEPT ![i].input = inp, ![i].output = out]
    IN  IF fault
        THEN run_container_except(called, i, "OSError", "")
        ELSE [called EXCEPT ![i].phase = "running",
                            ![i].argv = docker_cmd(containers[i], params)]

files_after_open(fs, i, out, fault) ==
    IF fault THEN fs ELSE WriteFile(fs, out, EmptyBy(i))

\* how the rest of the call goes: the subprocess exits with status 0 after
\* writing its output (lines 81-90), or with another status (lines 92-101),
\* having written its output or not; or it cannot be launched (line 74
\* raises FileNotFoundError); or it exits with status 0 and the output file
\* cannot be read back (line 82 raises OSError)
ExitOutcomes == {"ok", "nonzero", "nonzero_written"}
CallOutcomes == ExitOutcomes \cup {"not_launched", "ok_unreadable"}
StderrTexts == {"", "boom"}

files_after_exit(fs, i, out, outcome) ==
    IF outcome \in {"ok", "nonzero_written", "ok_unreadable"}
    THEN WriteFile(fs, out, OutputBy(i))
    ELSE fs

\* the preview of lines 82-83 is read in the same step as the exit
run_container_exit(st, fs, i, outcome, stderr) ==
    LET exited == [st EXCEPT ![i].stderr = stderr,
                             ![i].returncode = IF outcome \in {"ok", "ok_unreadable"}
                                               THEN 0 ELSE 1]
    IN  CASE outcome = "ok" ->
               [exited EXCEPT ![i].phase = "succeeded",
                              ![i].result = SuccessResult(containers[i], st[i].output,
                                    files_after_exit(fs, i, st[i].output, outcome)[st[i].output])]
          [] outcome = "ok_unreadable" ->
               run_container_except(exited, i, "OSError", stderr)
          [] outcome = "not_launched" ->
               run_container_except(st, i, "FileNotFoundError", "")
          [] OTHER ->
               run_container_except(exited, i, "CalledProcessError", stderr)

\* mutant: a call that returned an error result is waited for still
IsTerminal_on_success_only(st, i) == st[i].phase = "succeeded"

IsTerminal(st, i) == st[i].phase \in {"succeeded", "failed", "raised"}

(***************************************************************************)
(* Orchestrator.process_request.                                           *)
(***************************************************************************)
\* lines 125-129: the text the checks of lines 134-136 see
text_after_read(text, file) ==
    IF text.none /\ file.given /\ file.readable THEN Text(file.len) ELSE text

\* lines 126-132: the file is read only when no text was passed
read_fails(text, file) == text.none /\ file.given /\ ~file.readable

\* mutant: only a missing text is refused, an empty one passes
no_input_none_only(text) == text.none

\* line 134: `not input_text`
no_input(text) == text.none \/ text.len = 0

\* lines 118-136
Begin ==
    /\ pc = "start"
    /\ IF extract_parameters_raises(user_request)
       THEN /\ ret' = Raised("ValueError")
            /\ pc' = "done"
            /\ UNCHANGED <<params, input_text>>
       ELSE /\ params' = extract_parameters(user_request)
            /\ IF read_fails(input_text, input_file)
               THEN /\ ret' = ErrorRecord(ReadInputError)
                    /\ pc' = "done"
                    /\ UNCHANGED input_text
               ELSE /\ input_text' = text_after_read(input_text, input_file)
                    /\ IF no_input(input_text')
                       THEN ret' = ErrorRecord(NoInputError) /\ pc' = "done"
                       ELSE ret' = ret /\ pc' = "select"
    /\ UNCHANGED <<other_vars, use_mock, llm_response, user_request, input_file, selector_calls,
                   containers, temp_dir, temp_created, files, use_parallel,
                   container_files, step, results, current_input, final_output_file>>

\* input_text[:100]
SampleLimit == 100
\* mutant: the whole input is sent as the sample
sample_of_whole_text(text) == text.len

sample_of(text) == IF text.len <= SampleLimit THEN text.len ELSE SampleLimit

\* mutant: the plan is tested against None, which the selector never returns
plan_is_none(plan) == FALSE

\* line 140: `if not containers`
plan_is_empty(plan) == plan = <<>>

\* lines 138-144
Select ==
    /\ pc = "select"
    /\ selector_calls' = Append(selector_calls,
                                [user_request |-> user_request,
                                 sample_text |-> sample_of(input_text)])
    /\ LET out == determine_containers(use_mock, llm_response, user_request)
       IN  IF out.exc # ""
           THEN ret' = Raised(out.exc) /\ pc' = "done" /\ UNCHANGED containers
           ELSE /\ containers' = out.plan
                /\ IF plan_is_empty(out.plan)
                   THEN ret' = ErrorRecord(NoPlanError) /\ pc' = "done"
                   ELSE ret' = ret /\ pc' = "stage"
    /\ UNCHANGED <<other_vars, use_mock, llm_response, user_request, input_text, input_file, params,
                   temp_dir, temp_created, files, use_parallel, container_files, step,
                   results, current_input, final_output_file>>

\* mutant: the same-name guard is dropped
can_run_in_parallel_any(plan) == Cardinality({plan[i] : i \in DOMAIN plan}) >= 1

\* line 116
can_run_in_parallel(plan) == Cardinality({plan[i] : i \in DOMAIN plan}) = 1

\* lines 157-161
decide_parallel(p, plan) ==
    params_parallel(p) /\ Len(plan) > 1 /\ can_run_in_parallel(plan)

\* mutant: the directory is removed on the normal exit only
temp_dir_kept_on_raise(how) == how = "raise"

\* line 147, on leaving the `with` block by `how` ("return" or "raise"):
\* TemporaryDirectory removes the directory and everything in it
temp_dir_after_exit(how) == FALSE
files_after_exit_of_block(how, fs) == NoFiles

\* lines 146-163; `fault`: creating the directory fails, or writing the
\* staged input fails inside the `with` block
Stage ==
    /\ pc = "stage"
    /\ \E fault \in {"none", "mkdtemp", "write"} :
         CASE fault = "mkdtemp" ->
                /\ ret' = Raised("OSError")
                /\ pc' = "done"
                /\ UNCHANGED <<temp_dir, temp_created, files, use_parallel, step,
                               results, current_input>>
           [] fault = "write" ->
                /\ temp_created' = TRUE
                /\ temp_dir' = temp_dir_after_exit("raise")
                /\ files' = files_after_exit_of_block("raise", NoFiles)
                /\ ret' = Raised("OSError")
                /\ pc' = "done"
                /\ UNCHANGED <<use_parallel, step, results, current_input>>
           [] fault = "none" ->
                /\ temp_created' = TRUE
                /\ temp_dir' = TRUE
                /\ files' = WriteFile(NoFiles, InputPath, InputContent)
                /\ results' = <<>>
                /\ use_parallel' = decide_parallel(params, containers)
                /\ step' = [i \in Positions |-> Pending]
                /\ current_input' = InputPath
                /\ pc' = IF use_parallel' THEN "prepare" ELSE "sequential"
                /\ ret' = ret
    /\ UNCHANGED <<other_vars, use_mock, llm_response, user_request, input_text, input_file, params,
                   selector_calls, containers, container_files, final_output_file>>

\* lines 167-172: a dict keyed by the step NAME; a later position with the
\* same name overwrites the entry of an earlier one
LastIndexOf(plan, c) ==
    CHOOSE i \in DOMAIN plan : plan[i] = c /\ \A j \in DOMAIN plan : j > i => plan[j] # c

build_container_files(plan) ==
    [c \in {plan[i] : i \in DOMAIN plan} |->
        [input |-> InputPath, output |-> OutputPath(LastIndexOf(plan, c) - 1)]]

\* line 175: max_workers
PoolCeiling == 5

\* mutant: the pool has a worker for every planned step
max_workers_per_step(plan) == Len(plan)

max_workers(plan) == IF Len(plan) < PoolCeiling THEN Len(plan) ELSE PoolCeiling

Running(st) == {i \in DOMAIN st : st[i].phase = "running"}

\* lines 166-184: the paths are looked up by name when each call is submitted
Prepare ==
    /\ pc = "prepare"
    /\ container_files' = build_container_files(containers)
    /\ pc' = "parallel"
    /\ UNCHANGED <<other_vars, use_mock, llm_response, user_request, input_text, input_file, params,
                   selector_calls, containers, temp_dir, temp_created, files,
                   use_parallel, step, results, current_input, final_output_file, ret>>

\* mutant: a position whose call failed is called again
may_start_or_retry(st, i) == st[i].phase \in {"pending", "failed"}

\* lines 176-184 and 209-212: the comprehension and the loop visit each
\* position of the plan once, so a call is made only for a position that
\* was not called yet
may_start(st, i) == st[i].phase = "pending"

\* a pool worker takes the call of position i: _run_container, lines 44-79
ParStart(i) ==
    /\ pc = "parallel"
    /\ may_start(step, i)
    /\ Cardinality(Running(step)) < max_workers(containers)
    /\ \E fault \in BOOLEAN :
         /\ step' = run_container_open(step, i, container_files[containers[i]].input,
                                       container_files[containers[i]].output, fault)
         /\ files' = files_after_open(files, i, container_files[containers[i]].output, fault)
    /\ UNCHANGED <<other_vars, use_mock, llm_response, user_request, input_text, input_file, pc,
                   params, selector_calls, containers, temp_dir, temp_created,
                   use_parallel, container_files, results, current_input,
                   final_output_file, ret>>

\* the subprocess of position i exits: _run_container, lines 81-101
ParFinish(i) ==
    /\ pc = "parallel"
    /\ step[i].phase = "running"
    /\ \E outcome \in CallOutcomes, stderr \in StderrTexts :
         /\ outcome = "not_launched" => stderr = ""
         /\ step' = run_container_exit(step, files, i, outcome, stderr)
         /\ files' = files_after_exit(files, i, step[i].output, outcome)
    /\ UNCHANGED <<other_vars, use_mock, llm_response, user_request, input_text, input_file, pc,
                   params, selector_calls, containers, temp_dir, temp_created,
                   use_parallel, container_files, results, current_input,
                   final_output_file, ret>>

\* mutant: a result is recorded twice
record_result_twice(rs, r) == Append(Append(rs, r), r)

\* lines 191, 194 and 213: results.append
record_result(rs, r) == Append(rs, r)

\* lines 189-198: future.result(), or the error result built from the
\* exception the call raised
future_result(st, i) ==
    IF st[i].phase = "raised"
    THEN ErrorResult(containers[i], str_of(st[i].fault))
    ELSE st[i].result

\* lines 187-198: as_completed hands over a finished call; its result is appended
Collect(i) ==
    /\ pc = "parallel"
    /\ IsTerminal(step, i)
    /\ ~step[i].collected
    /\ results' = record_result(results, future_result(step, i))
    /\ step' = [step EXCEPT ![i].collected = TRUE]
    /\ UNCHANGED <<other_vars, use_mock, llm_response, user_request, input_text, input_file, pc,
                   params, selector_calls, containers, temp_dir, temp_created, files,
                   use_parallel, container_files, current_input, final_output_file, ret>>

\* mutant: the pool is left as soon as a failed call was handed over
all_collected_or_one_failed(st) ==
    \/ \A i \in DOMAIN st : st[i].collected
    \/ \E i \in DOMAIN st : st[i].collected /\ st[i].phase = "failed"

\* the loop of line 187 ends when every submitted call was handed over
all_collected(st) == \A i \in DOMAIN st : st[i].collected

\* lines 187-202: the pool is left, the output path of the last name is taken
Join ==
    /\ pc = "parallel"
    /\ all_collected(step)
    /\ final_output_file' = container_files[containers[Len(containers)]].output
    /\ pc' = "finish"
    /\ UNCHANGED <<other_vars, use_mock, llm_response, user_request, input_text, input_file, params,
                   selector_calls, containers, temp_dir, temp_created, files,
                   use_parallel, container_files, step, results, current_input, ret>>

\* mutant: the loop walks the plan from its end
loop_position_reversed(plan, rs) == Len(plan) - Len(rs)

\* line 209: enumerate(containers) goes through the plan in its order, and
\* every position gone through so far has appended its result (line 213)
loop_position(plan, rs) == Len(rs) + 1

\* lines 209-212: the loop calls _run_container for the next position
SeqStart(i) ==
    /\ pc = "sequential"
    /\ i = loop_position(containers, results)
    /\ may_start(step, i)
    /\ \E fault \in BOOLEAN :
         /\ step' = run_container_open(step, i, current_input, OutputPath(i - 1), fault)
         /\ files' = files_after_open(files, i, OutputPath(i - 1), fault)
    /\ UNCHANGED <<other_vars, use_mock, llm_response, user_request, input_text, input_file, pc,
                   params, selector_calls, containers, temp_dir, temp_created,
                   use_parallel, container_files, results, current_input,
                   final_output_file, ret>>

\* the subprocess of position i exits: _run_container, lines 81-101
SeqFinish(i) ==
    /\ pc = "sequential"
    /\ step[i].phase = "running"
    /\ \E outcome \in CallOutcomes, stderr \in StderrTexts :
         /\ outcome = "not_launched" => stderr = ""
         /\ step' = run_container_exit(step, files, i, outcome, stderr)
         /\ files' = files_after_exit(files, i, step[i].output, outcome)
    /\ UNCHANGED <<other_vars, use_mock, llm_response, user_request, input_text, input_file, pc,
                   params, selector_calls, containers, temp_dir, temp_created,
                   use_parallel, container_files, results, current_input,
                   final_output_file, ret>>

\* mutant: the loop tests for a status no result carries
stops_on_wrong_status(result) == result.status = "failed"

\* line 215: the loop is left on an error result
stops_on(result) == result.status = "error"

\* mutant: the output file becomes the current input after a failure too
next_input_also_after_error(current, result, output_file) == output_file

\* mutant: every position reads the input the loop started with
next_input_unchanged(current, result, output_file) == current

\* lines 215-220: after a success the output file is the next input
next_input(current, result, output_file) ==
    IF stops_on(result) THEN current ELSE output_file

\* lines 212-222: an exception leaving _run_container leaves process_request
\* through the `with` block of line 147; otherwise the result is appended
\* and, on an error or after the last position, the loop is left and the
\* current input is the final output file
SeqNext(i) ==
    /\ pc = "sequential"
    /\ IsTerminal(step, i)
    /\ ~step[i].collected
    /\ step' = [step EXCEPT ![i].collected = TRUE]
    /\ IF step[i].phase = "raised"
       THEN /\ ret' = Raised(step[i].fault)
            /\ temp_dir' = temp_dir_after_exit("raise")
            /\ files' = files_after_exit_of_block("raise", files)
            /\ pc' = "done"
            /\ UNCHANGED <<results, current_input, final_output_file>>
       ELSE /\ results' = record_result(results, step[i].result)
            /\ current_input' = next_input(current_input, step[i].result, step[i].output)
            /\ IF stops_on(step[i].result) \/ i = Len(containers)
               THEN pc' = "finish" /\ final_output_file' = current_input'
               ELSE pc' = "sequential" /\ UNCHANGED final_output_file
            /\ UNCHANGED <<temp_dir, files, ret>>
    /\ UNCHANGED <<other_vars, use_mock, llm_response, user_request, input_text, input_file, params,
                   selector_calls, containers, temp_created, use_parallel,
                   container_files>>

\* lines 228-233: the final output, "" when the file cannot be read
read_final_output(fs, path, readable) ==
    IF readable /\ path \in DOMAIN fs THEN fs[path] ELSE NoContent

\* mutant: the record reports the hint of the request, not the mode used
RunRecord_reports_hint(final_output) ==
    [kind |-> "run", request |-> user_request, execution_plan |-> containers,
     execution_time |-> "elapsed", parallel |-> params_parallel(params),
     results |-> results, output |-> final_output, parameters |-> params]

RunRecord(final_output) ==
    [kind |-> "run", request |-> user_request, execution_plan |-> containers,
     execution_time |-> "elapsed", parallel |-> use_parallel, results |-> results,
     output |-> final_output, parameters |-> params]

\* lines 224-244: the record is built and the `with` block of line 147 is left
Finish ==
    /\ pc = "finish"
    /\ \E readable \in BOOLEAN :
         ret' = RunRecord(read_final_output(files, final_output_file, readable))
    /\ temp_dir' = temp_dir_after_exit("return")
    /\ files' = files_after_exit_of_block("return", files)
    /\ pc' = "done"
    /\ UNCHANGED <<other_vars, use_mock, llm_response, user_request, input_text, input_file, params,
                   selector_calls, containers, temp_created, use_parallel,
                   container_files, step, results, current_input, final_output_file>>

(***************************************************************************)
(* The executor specification: one call of process_request, for every      *)
(* request, input and classifier response of the sets below.               *)
(***************************************************************************)
R_clean == <<"C", "l", "e", "a", "n", " ", "t", "h", "i", "s">>
R_summ == <<"s", "u", "m", "m", "a", "r", "i", "z", "e", " ", "t", "h", "i", "s", " ",
            "t", "o", " ", "2", " ", "s", "e", "n", "t", "e", "n", "c", "e", "s">>
R_par == <<"c", "l", "e", "a", "n", " ", "i", "n", " ", "P", "A", "R", "A", "L", "L", "E", "L">>
R_all == <<"r", "e", "m", "o", "v", "e", ",", " ", "A", "n", "a", "l", "y", "z", "e", ",", " ",
           "s", "h", "o", "r", "t", "e", "n">>
R_hello == <<"h", "e", "l", "l", "o">>

\* "clean, summarize concurrently"
R_par_two ==
    <<"c", "l", "e", "a", "n", ",", " ", "s", "u", "m", "m", "a", "r", "i", "z", "e", " ",
      "c", "o", "n", "c", "u", "r", "r", "e", "n", "t", "l", "y">>

RunRequests == {R_clean, R_summ, R_par_two, R_all, R_hello}

SeqsUpTo(S, n) == UNION {[1..k -> S] : k \in 0..n}

RunNames == {"data-cleaning", "text-summarization"}

\* answers that are no list of names: no content, text that is not JSON,
\* and JSON of other shapes
RunShapes ==
    {JDict("containers", JList(<<>>)), JDict("containers", JStr("")),
     JDict("other", JList(<<JStr("data-cleaning")>>)), JEmptyDict, JNum}

RunResponses ==
    {LLMRaise("APITimeoutError"), LLMNoContent, LLMNotJson}
    \cup {LLMJson(v) : v \in RunShapes}
    \cup {LLMJson(JList(xs)) : xs \in
        {[i \in 1..Len(ns) |-> JStr(ns[i])] : ns \in SeqsUpTo(RunNames, MaxSteps)}}

\* the text lengths of the inputs: below and above the sample limit
TextLen == 120
InputCases ==
    {<<None, NoFile>>, <<None, Unreadable>>, <<None, File(0)>>, <<None, File(TextLen)>>,
     <<Text(0), NoFile>>, <<Text(0), File(TextLen)>>, <<Text(TextLen), NoFile>>,
     <<Text(TextLen), Unreadable>>}

Init ==
    /\ use_mock \in BOOLEAN
    /\ llm_response \in RunResponses
    /\ use_mock => llm_response = LLMRaise("APITimeoutError")
    /\ user_request \in RunRequests
    /\ \E c \in InputCases : input_text = c[1] /\ input_file = c[2]
    /\ pc = "start"
    /\ params = [k \in {} |-> TRUE]
    /\ selector_calls = <<>>
    /\ containers = <<>>
    /\ temp_dir = FALSE
    /\ temp_created = FALSE
    /\ files = NoFiles
    /\ use_parallel = FALSE
    /\ container_files = [c \in {} |-> [input |-> NoPath, output |-> NoPath]]
    /\ step = <<>>
    /\ results = <<>>
    /\ current_input = NoPath
    /\ final_output_file = NoPath
    /\ ret = NotReturned
    /\ OthersIdle

Next ==
    \/ Begin
    \/ Select
    \/ Stage
    \/ Prepare
    \/ \E i \in Positions : ParStart(i)
    \/ \E i \in Positions : ParFinish(i)
    \/ \E i \in Positions : Collect(i)
    \/ Join
    \/ \E i \in Positions : SeqStart(i)
    \/ \E i \in Positions : SeqFinish(i)
    \/ \E i \in Positions : SeqNext(i)
    \/ Finish

Spec == Init /\ [][Next]_vars

(***************************************************************************)
(* The selector specification: determine_containers as a function of the   *)
(* engine's mode, the request and the classifier's response, for every     *)
(* request of at most MaxWords words and every response below.             *)
(***************************************************************************)
W_Clean == <<"C", "l", "e", "a", "n">>
W_remove == <<"r", "e", "m", "o", "v", "e">>
W_ANALYZE == <<"A", "N", "A", "L", "Y", "Z", "E">>
W_briefly == <<"b", "r", "i", "e", "f", "l", "y">>
W_hello == <<"h", "e", "l", "l", "o">>

Vocabulary == {W_Clean, W_remove, W_ANALYZE, W_briefly, W_hello}

RECURSIVE JoinWords(_)
JoinWords(ws) ==
    IF ws = <<>> THEN <<>>
    ELSE IF Len(ws) = 1 THEN ws[1]
    ELSE ws[1] \o <<" ">> \o JoinWords(Tail(ws))

\* the request of the tests of the model-backed selector
R_clean_this_text == <<"C", "l", "e", "a", "n", " ", "t", "h", "i", "s", " ", "t", "e", "x", "t">>

Requests == {JoinWords(ws) : ws \in SeqsUpTo(Vocabulary, MaxWords)} \cup {R_clean_this_text}

SelItems == {JStr("data-cleaning"), JStr("text-summarization"), JStr("bogus"),
             JNum, JList(<<>>)}

SelLists == {JList(xs) : xs \in SeqsUpTo(SelItems, MaxItems)}

SelValues ==
    SelLists
    \cup {JDict("containers", v) : v \in SelLists}
    \cup {JDict("containers", v) :
            v \in {JNum, JNull, JStr(""), JStr("data-cleaning"), JStr("x"),
                   JDict("data-cleaning", JNum), JEmptyDict}}
    \cup {JDict("other", JList(<<JStr("data-cleaning")>>)), JEmptyDict, JNum, JNull,
          JStr("data-cleaning")}

SelResponses ==
    {LLMRaise("APITimeoutError"), LLMRaise("APIConnectionError"), LLMRaise("Exception"),
     LLMNoContent, LLMNotJson}
    \cup {LLMJson(v) : v \in SelValues}

SelInit ==
    /\ use_mock \in BOOLEAN
    /\ llm_response \in SelResponses
    /\ use_mock => llm_response = LLMRaise("APITimeoutError")
    /\ user_request \in Requests
    /\ input_text = Text(TextLen)
    /\ input_file = NoFile
    /\ pc = "sel_start"
    /\ params = [k \in {} |-> TRUE]
    /\ selector_calls = <<>>
    /\ containers = <<>>
    /\ temp_dir = FALSE
    /\ temp_created = FALSE
    /\ files = NoFiles
    /\ use_parallel = FALSE
    /\ container_files = [c \in {} |-> [input |-> NoPath, output |-> NoPath]]
    /\ step = <<>>
    /\ results = <<>>
    /\ current_input = NoPath
    /\ final_output_file = NoPath
    /\ ret = NotReturned
    /\ OthersIdle

Returned(plan) == [kind |-> "plan", plan |-> plan]

\* one call of determine_containers
SelCall ==
    /\ pc = "sel_start"
    /\ selector_calls' = Append(selector_calls,
                                [user_request |-> user_request,
                                 sample_text |-> sample_of(input_text)])
    /\ LET out == determine_containers(use_mock, llm_response, user_request)
       IN  IF out.exc # ""
           THEN ret' = Raised(out.exc) /\ UNCHANGED containers
           ELSE ret' = Returned(out.plan) /\ containers' = out.plan
    /\ pc' = "sel_done"
    /\ UNCHANGED <<other_vars, use_mock, llm_response, user_request, input_text, input_file, params,
                   temp_dir, temp_created, files, use_parallel, container_files, step,
                   results, current_input, final_output_file>>

SelNext == SelCall

SelSpec == SelInit /\ [][SelNext]_vars

(***************************************************************************)
(* The heuristic-selector specification: one call of                       *)
(* _mock_determine_containers for every request of up to MaxHeurWords      *)
(* words of HeurVocabulary.                                                *)
(***************************************************************************)
MaxHeurWords == 3

W_Feeling == <<"F", "e", "e", "l", "i", "n", "g">>
W_Summarize == <<"S", "u", "m", "m", "a", "r", "i", "z", "e">>
W_brief == <<"b", "r", "i", "e", "f">>
W_uncleaned == <<"u", "n", "c", "l", "e", "a", "n", "e", "d">>

HeurVocabulary ==
    {W_Clean, W_remove, W_ANALYZE, W_Feeling, W_Summarize, W_brief, W_hello, W_uncleaned}

HeurRequests == {JoinWords(ws) : ws \in SeqsUpTo(HeurVocabulary, MaxHeurWords)}

HeurInit ==
    /\ use_mock = TRUE
    /\ llm_response = LLMRaise("APITimeoutError")
    /\ user_request \in HeurRequests
    /\ input_text = Text(TextLen)
    /\ input_file = NoFile
    /\ pc = "heur_start"
    /\ params = [k \in {} |-> TRUE]
    /\ selector_calls = <<>>
    /\ containers = <<>>
    /\ temp_dir = FALSE
    /\ temp_created = FALSE
    /\ files = NoFiles
    /\ use_parallel = FALSE
    /\ container_files = [c \in {} |-> [input |-> NoPath, output |-> NoPath]]
    /\ step = <<>>
    /\ results = <<>>
    /\ current_input = NoPath
    /\ final_output_file = NoPath
    /\ ret = NotReturned
    /\ OthersIdle

\* one call of _mock_determine_containers
HeurCall ==
    /\ pc = "heur_start"
    /\ ret' = Returned(mock_determine_containers(user_request))
    /\ containers' = mock_determine_containers(user_request)
    /\ pc' = "heur_done"
    /\ UNCHANGED <<other_vars, use_mock, llm_response, user_request, input_text, input_file, params,
                   selector_calls, temp_dir, temp_created, files, use_parallel,
                   container_files, step, results, current_input, final_output_file>>

HeurNext == HeurCall

HeurSpec == HeurInit /\ [][HeurNext]_vars

(***************************************************************************)
(* The parameter-extraction specification: one call of extract_parameters  *)
(* for every request of up to MaxParamWords words of ParamVocabulary, and  *)
(* for the requests of ParamExtras.                                        *)
(***************************************************************************)
MaxParamWords == 5

W_it == <<"i", "t">>
W_to == <<"t", "o">>
W_2 == <<"2">>
W_sentences == <<"s", "e", "n", "t", "e", "n", "c", "e", "s">>
W_PARALLEL == <<"P", "A", "R", "A", "L", "L", "E", "L">>

ParamVocabulary == {W_Summarize, W_it, W_to, W_2, W_sentences, W_PARALLEL}

\* "summarize to 2 sentences"
R_summ_to == <<"s", "u", "m", "m", "a", "r", "i", "z", "e", " ",
               "t", "o", " ", "2", " ", "s", "e", "n", "t", "e", "n", "c", "e", "s">>
\* "Summarize  to 3 sentences x to 5 sentences"
R_summ_twice == <<"S", "u", "m", "m", "a", "r", "i", "z", "e", " ", " ",
                  "t", "o", " ", "3", " ", "s", "e", "n", "t", "e", "n", "c", "e", "s", " ",
                  "x", " ", "t", "o", " ", "5", " ", "s", "e", "n", "t", "e", "n", "c", "e", "s">>
\* "summarize it\nto 2 sentences"
R_summ_newline == <<"s", "u", "m", "m", "a", "r", "i", "z", "e", " ", "i", "t", "\n",
                    "t", "o", " ", "2", " ", "s", "e", "n", "t", "e", "n", "c", "e", "s">>
\* "summarize\nit to 12 sentences CONCURRENTLY"
R_summ_conc == <<"s", "u", "m", "m", "a", "r", "i", "z", "e", "\n", "i", "t", " ",
                 "t", "o", " ", "1", "2", " ", "s", "e", "n", "t", "e", "n", "c", "e", "s", " ",
                 "C", "O", "N", "C", "U", "R", "R", "E", "N", "T", "L", "Y">>
\* "summarize it to 99...9 sentences", the number one digit longer than int() takes
R_summ_huge ==
    <<"s", "u", "m", "m", "a", "r", "i", "z", "e", " ", "i", "t", " ", "t", "o", " ">>
    \o [i \in 1..(IntMaxStrDigits + 1) |-> "9"]
    \o <<" ", "s", "e", "n", "t", "e", "n", "c", "e", "s">>

ParamExtras == {R_summ, R_summ_to, R_summ_twice, R_summ_newline, R_summ_conc, R_summ_huge}

ParamRequests ==
    {JoinWords(ws) : ws \in SeqsUpTo(ParamVocabulary, MaxParamWords)} \cup ParamExtras

ParamInit ==
    /\ use_mock = TRUE
    /\ llm_response = LLMRaise("APITimeoutError")
    /\ user_request \in ParamRequests
    /\ input_text = Text(TextLen)
    /\ input_file = NoFile
    /\ pc = "param_start"
    /\ params = [k \in {} |-> TRUE]
    /\ selector_calls = <<>>
    /\ containers = <<>>
    /\ temp_dir = FALSE
    /\ temp_created = FALSE
    /\ files = NoFiles
    /\ use_parallel = FALSE
    /\ container_files = [c \in {} |-> [input |-> NoPath, output |-> NoPath]]
    /\ step = <<>>
    /\ results = <<>>
    /\ current_input = NoPath
    /\ final_output_file = NoPath
    /\ ret = NotReturned
    /\ OthersIdle

ReturnedParams(p) == [kind |-> "params", params |-> p]

\* one call of extract_parameters
ExtractCall ==
    /\ pc = "param_start"
    /\ IF extract_parameters_raises(user_request)
       THEN ret' = Raised("ValueError") /\ UNCHANGED params
       ELSE /\ params' = extract_parameters(user_request)
            /\ ret' = ReturnedParams(params')
    /\ pc' = "param_done"
    /\ UNCHANGED <<other_vars, use_mock, llm_response, user_request, input_text,
                   input_file, selector_calls, containers, temp_dir, temp_created,
                   files, use_parallel, container_files, step, results, current_input,
                   final_output_file>>

ParamNext == ExtractCall

ParamSpec == ParamInit /\ [][ParamNext]_vars

(***************************************************************************)
(* The repeated-call specification: up to MaxCalls calls of                *)
(* _mock_determine_containers on one engine, in either mode, with calls of *)
(* determine_containers in between.                                        *)
(***************************************************************************)
MaxCalls == 3

\* the engine as a call sees it: its mode and the calls it has served
Engine == [use_mock |-> use_mock, calls |-> calls, selector_calls |-> selector_calls]

\* mutant: an engine that has served a call answers with the default plan
heuristic_call_worn(self, request) ==
    IF self.calls = <<>> THEN mock_determine_containers(request) ELSE mock_default

\* self._mock_determine_containers(user_request): lines 161-186 read the
\* request and nothing of self
heuristic_call(self, request) == mock_determine_containers(request)

IdemRequests == {<<>>, R_clean, R_all, R_hello}

IdemInit ==
    /\ use_mock \in BOOLEAN
    /\ llm_response \in {LLMRaise("APITimeoutError"),
                         LLMJson(JList(<<JStr("text-summarization")>>))}
    /\ user_request = <<>>
    /\ input_text = Text(TextLen)
    /\ input_file = NoFile
    /\ pc = "idem"
    /\ params = [k \in {} |-> TRUE]
    /\ selector_calls = <<>>
    /\ containers = <<>>
    /\ temp_dir = FALSE
    /\ temp_created = FALSE
    /\ files = NoFiles
    /\ use_parallel = FALSE
    /\ container_files = [c \in {} |-> [input |-> NoPath, output |-> NoPath]]
    /\ step = <<>>
    /\ results = <<>>
    /\ current_input = NoPath
    /\ final_output_file = NoPath
    /\ ret = NotReturned
    /\ OthersIdle

\* one call of _mock_determine_containers
MockCall ==
    /\ pc = "idem"
    /\ Len(calls) < MaxCalls
    /\ \E r \in IdemRequests :
         calls' = Append(calls, [request |-> r, plan |-> heuristic_call(Engine, r)])
    /\ UNCHANGED <<use_mock, llm_response, user_request, input_text, input_file, pc,
                   params, selector_calls, containers, temp_dir, temp_created, files,
                   use_parallel, container_files, step, results, current_input,
                   final_output_file, ret, http, runs, disk, proc>>

\* one call of determine_containers between two of them
OtherCall ==
    /\ pc = "idem"
    /\ selector_calls = <<>>
    /\ \E r \in IdemRequests :
         /\ selector_calls' = Append(selector_calls,
                                     [user_request |-> r,
                                      sample_text |-> sample_of(input_text)])
         /\ containers' = determine_containers(use_mock, llm_response, r).plan
    /\ UNCHANGED <<other_vars, use_mock, llm_response, user_request, input_text,
                   input_file, pc, params, temp_dir, temp_created, files, use_parallel,
                   container_files, step, results, current_input, final_output_file,
                   ret>>

IdemNext == MockCall \/ OtherCall

IdemSpec == IdemInit /\ [][IdemNext]_vars

(***************************************************************************)
(* The concurrent-runs specification: MaxRuns invocations of               *)
(* process_request on the one Orchestrator of app.py line 7, interleaved   *)
(* step by step, each from its staging (line 146) to its return.  The      *)
(* Orchestrator holds self.llm and self.container_prefix only; temp_dir,   *)
(* results and the executor are locals of the invocation.                  *)
(***************************************************************************)
MaxRuns == 2

RunIds == 1..MaxRuns

\* the names tempfile can give a directory
DirNames == 1..MaxRuns
NoDir == 0

\* mutant: the directory name is not checked against the existing ones
mkdtemp_shared(existing) == {SetMin(DirNames)}

\* line 147, tempfile.TemporaryDirectory(): mkdtemp creates a directory under
\* a name that no existing directory has; the names are interchangeable, the
\* least unused one stands for whichever name is drawn
mkdtemp(existing) == {SetMin(DirNames \ existing)}

\* a file of a run: who wrote it
RunFile(r, kind, i) == [run |-> r, kind |-> kind, by |-> i]
MissingFile == [run |-> 0, kind |-> "missing", by |-> 0]

DiskRead(dk, d, path) ==
    IF d \in DOMAIN dk /\ path \in DOMAIN dk[d] THEN dk[d][path] ELSE MissingFile

DiskWrite(dk, d, path, content) ==
    [x \in (DOMAIN dk) \cup {d} |->
        IF x = d
        THEN WriteFile(IF d \in DOMAIN dk THEN dk[d] ELSE NoFiles, path, content)
        ELSE dk[x]]

\* TemporaryDirectory.cleanup(): the directory of that name is removed
DiskRemove(dk, d) == [x \in (DOMAIN dk) \ {d} |-> dk[x]]

\* the plans and modes of the concurrent runs: the odd runs are parallel
\* runs of two steps, the even runs sequential runs of two steps
ConcPlan(r) ==
    IF r % 2 = 1
    THEN [plan |-> <<"data-cleaning", "data-cleaning">>, parallel |-> TRUE]
    ELSE [plan |-> <<"data-cleaning", "text-summarization">>, parallel |-> FALSE]

IdleRun(c) ==
    [pc |-> "stage", plan |-> c.plan, parallel |-> c.parallel, dir |-> NoDir,
     started |-> {}, inflight |-> {}, results |-> <<>>, output |-> MissingFile]

\* the input and output path of position i (lines 167-172, 181-182 and
\* 205-220)
conc_input(run, i) ==
    IF run.parallel \/ i = 1 THEN InputPath ELSE OutputPath(i - 2)

conc_output(run, i) ==
    IF run.parallel THEN build_container_files(run.plan)[run.plan[i]].output
    ELSE OutputPath(i - 1)

ConcInit ==
    /\ use_mock = TRUE
    /\ llm_response = LLMRaise("APITimeoutError")
    /\ user_request = <<>>
    /\ input_text = Text(TextLen)
    /\ input_file = NoFile
    /\ pc = "conc"
    /\ params = [k \in {} |-> TRUE]
    /\ selector_calls = <<>>
    /\ containers = <<>>
    /\ temp_dir = FALSE
    /\ temp_created = FALSE
    /\ files = NoFiles
    /\ use_parallel = FALSE
    /\ container_files = [c \in {} |-> [input |-> NoPath, output |-> NoPath]]
    /\ step = <<>>
    /\ results = <<>>
    /\ current_input = NoPath
    /\ final_output_file = NoPath
    /\ ret = NotReturned
    /\ calls = NoCalls
    /\ http = NoHttp
    /\ runs = [r \in RunIds |-> IdleRun(ConcPlan(r))]
    /\ disk = NoDisk
    /\ proc = NoProc

ConcUnchanged ==
    UNCHANGED <<use_mock, llm_response, user_request, input_text, input_file, pc, params,
                selector_calls, containers, temp_dir, temp_created, files, use_parallel,
                container_files, step, results, current_input, final_output_file, ret,
                calls, http, proc>>

\* lines 146-155 of run r: the directory is created, the input is staged
ConcStage(r) ==
    /\ runs[r].pc = "stage"
    /\ \E d \in mkdtemp(DOMAIN disk) :
         /\ disk' = DiskWrite(disk, d, InputPath, RunFile(r, "input", 0))
         /\ runs' = [runs EXCEPT ![r].pc = "run", ![r].dir = d]
    /\ ConcUnchanged

\* sequential mode, line 215: an error result ends the loop
conc_halted(run) ==
    /\ ~run.parallel
    /\ run.results # <<>>
    /\ stops_on(run.results[Len(run.results)])

\* run r calls _run_container for position i (lines 176-184 or 209-212):
\* lines 47-51 create the empty output file
ConcStart(r, i) ==
    /\ runs[r].pc = "run"
    /\ i \in DOMAIN runs[r].plan
    /\ i \notin runs[r].started
    /\ IF runs[r].parallel
       THEN Cardinality(runs[r].inflight) < max_workers(runs[r].plan)
       ELSE /\ runs[r].inflight = {}
            /\ i = Len(runs[r].results) + 1
            /\ ~conc_halted(runs[r])
    /\ disk' = DiskWrite(disk, runs[r].dir, conc_output(runs[r], i), RunFile(r, "empty", i))
    /\ runs' = [runs EXCEPT ![r].started = @ \cup {i}, ![r].inflight = @ \cup {i}]
    /\ ConcUnchanged

\* the subprocess of position i of run r has read its input and exits; the
\* result is appended to the results of run r (lines 191 or 213)
ConcFinish(r, i) ==
    /\ runs[r].pc = "run"
    /\ i \in runs[r].inflight
    /\ \E ok \in BOOLEAN :
         /\ disk' = IF ok
                    THEN DiskWrite(disk, runs[r].dir, conc_output(runs[r], i),
                                   RunFile(r, "output", i))
                    ELSE disk
         /\ runs' = [runs EXCEPT
                       ![r].inflight = @ \ {i},
                       ![r].results = record_result(@,
                           [run |-> r, position |-> i,
                            status |-> IF ok THEN "success" ELSE "error",
                            read |-> DiskRead(disk, runs[r].dir, conc_input(runs[r], i))])]
    /\ ConcUnchanged

\* lines 200-202, 219-244 of run r: the final output is read, the record is
\* returned and the `with` block removes the directory
ConcReturn(r) ==
    /\ runs[r].pc = "run"
    /\ runs[r].inflight = {}
    /\ \/ conc_halted(runs[r])
       \/ runs[r].started = DOMAIN runs[r].plan
    /\ LET done == {k \in DOMAIN runs[r].results : runs[r].results[k].status = "success"}
           final == IF runs[r].parallel
                    THEN conc_output(runs[r], Len(runs[r].plan))
                    ELSE IF done = {} THEN InputPath
                    ELSE conc_output(runs[r], Cardinality(done))
       IN  runs' = [runs EXCEPT ![r].pc = "done",
                                ![r].output = DiskRead(disk, runs[r].dir, final)]
    /\ disk' = DiskRemove(disk, runs[r].dir)
    /\ ConcUnchanged

ConcNext ==
    \/ \E r \in RunIds : ConcStage(r)
    \/ \E r \in RunIds : \E i \in 1..MaxSteps : ConcStart(r, i)
    \/ \E r \in RunIds : \E i \in 1..MaxSteps : ConcFinish(r, i)
    \/ \E r \in RunIds : ConcReturn(r)

ConcSpec == ConcInit /\ [][ConcNext]_vars

(***************************************************************************)
(* The front-end specification: one POST to /process (app.py lines 13-26)  *)
(* with a JSON object as its body, and the process_request invocation it   *)
(* makes.                                                                  *)
(***************************************************************************)
\* a field of the body: not there, there with the empty string, there with
\* a text
FieldCases == {"absent", "empty", "text"}

\* lines 16-17 and 19: data.get(...) is None or a string; `not` of it
field_is_falsy(f) == f \in {"absent", "empty"}

HttpReceived(request_field, text_field) ==
    [phase |-> "received", request_field |-> request_field, text_field |-> text_field,
     core_calls |-> 0, status |-> 0, body |-> NotReturned]

RequiredError == "Request and input text are required"

\* mutant: an error record of the core is answered as a server error
http_status_errors_are_500(result) == IF result.kind = "run" THEN 200 ELSE 500

\* lines 24 and 26: jsonify(result) has status 200, the handler of line 25
\* answers 500
http_status(result) == IF result.kind = "raise" THEN 500 ELSE 200

\* lines 24 and 26: the body of the response
http_body(result) ==
    IF result.kind = "raise" THEN ErrorRecord(str_of(result.exc)) ELSE result

AppInit ==
    /\ use_mock \in BOOLEAN
    /\ llm_response \in RunResponses
    /\ use_mock => llm_response = LLMRaise("APITimeoutError")
    /\ \E rf \in FieldCases, tf \in FieldCases :
         /\ http = HttpReceived(rf, tf)
         /\ IF rf = "text" THEN user_request \in RunRequests ELSE user_request = <<>>
         /\ input_text = CASE tf = "absent" -> None
                           [] tf = "empty" -> Text(0)
                           [] tf = "text" -> Text(TextLen)
    /\ input_file = NoFile
    /\ pc = "http"
    /\ params = [k \in {} |-> TRUE]
    /\ selector_calls = <<>>
    /\ containers = <<>>
    /\ temp_dir = FALSE
    /\ temp_created = FALSE
    /\ files = NoFiles
    /\ use_parallel = FALSE
    /\ container_files = [c \in {} |-> [input |-> NoPath, output |-> NoPath]]
    /\ step = <<>>
    /\ results = <<>>
    /\ current_input = NoPath
    /\ final_output_file = NoPath
    /\ ret = NotReturned
    /\ calls = NoCalls
    /\ runs = NoRuns
    /\ disk = NoDisk
    /\ proc = NoProc

\* lines 15-23: the fields are checked; the core is called when both are there
AppHandle ==
    /\ pc = "http"
    /\ IF field_is_falsy(http.request_field) \/ field_is_falsy(http.text_field)
       THEN /\ http' = [http EXCEPT !.phase = "responded", !.status = 400,
                                    !.body = ErrorRecord(RequiredError)]
            /\ pc' = "http_done"
       ELSE /\ http' = [http EXCEPT !.phase = "calling", !.core_calls = @ + 1]
            /\ pc' = "start"
    /\ UNCHANGED <<use_mock, llm_response, user_request, input_text, input_file, params,
                   selector_calls, containers, temp_dir, temp_created, files,
                   use_parallel, container_files, step, results, current_input,
                   final_output_file, ret, calls, runs, disk, proc>>

\* lines 24-26: the core has returned or raised; the response is built
AppRespond ==
    /\ pc = "done"
    /\ http.phase = "calling"
    /\ http' = [http EXCEPT !.phase = "responded", !.status = http_status(ret),
                            !.body = http_body(ret)]
    /\ pc' = "http_done"
    /\ UNCHANGED <<use_mock, llm_response, user_request, input_text, input_file, params,
                   selector_calls, containers, temp_dir, temp_created, files,
                   use_parallel, container_files, step, results, current_input,
                   final_output_file, ret, calls, runs, disk, proc>>

AppNext ==
    \/ AppHandle
    \/ Begin
    \/ Select
    \/ Stage
    \/ Prepare
    \/ \E i \in Positions : ParStart(i)
    \/ \E i \in Positions : ParFinish(i)
    \/ \E i \in Positions : Collect(i)
    \/ Join
    \/ \E i \in Positions : SeqStart(i)
    \/ \E i \in Positions : SeqFinish(i)
    \/ \E i \in Positions : SeqNext(i)
    \/ Finish
    \/ AppRespond

AppSpec == AppInit /\ [][AppNext]_vars

(***************************************************************************)
(* The step scripts (src/containers): clean_data, analyze_sentiment and    *)
(* summarize_text, and the __main__ block of each script.                  *)
(***************************************************************************)
Letters == {UpperLetters[i] : i \in 1..26} \cup {LowerLetters[i] : i \in 1..26}

\* \w of the patterns, on ASCII text
IsWordChar(c) == c \in Letters \/ IsDigit(c) \/ c = "_"

\* the characters of the texts given to the scripts.  On a text of these
\* characters the substitutions of data_cleaning.py lines 18-35 (unicode,
\* entities, tags, citations, headers, quotes) and 49-58 (list markers) and
\* of summarize.py line 9 (citations) find nothing to replace, and the text
\* is one paragraph (it has no line break)
StepAlphabet == Letters \cup {" ", "!", "?", ",", ".", "#"}
OverStepAlphabet(text) == \A i \in DOMAIN text : text[i] \in StepAlphabet

\* data_cleaning.py line 38: a character outside the kept classes becomes a space
KeptPunctuation == {".", ",", "?", "!", ":", ";", "-", "(", ")", "[", "]", "/", "\"", "'"}
replace_special(text) ==
    [i \in DOMAIN text |->
        IF IsWordChar(text[i]) \/ IsSpace(text[i]) \/ text[i] \in KeptPunctuation
        THEN text[i] ELSE " "]

\* data_cleaning.py line 41: re.sub(r'(\w)\.(\w)\.', r'\1\2', text), scanning
\* from the left, matches not overlapping
RECURSIVE collapse_abbreviations(_)
collapse_abbreviations(text) ==
    IF text = <<>> THEN <<>>
    ELSE IF /\ Len(text) >= 4
            /\ IsWordChar(text[1]) /\ text[2] = "."
            /\ IsWordChar(text[3]) /\ text[4] = "."
         THEN <<text[1], text[3]>> \o collapse_abbreviations(SubSeq(text, 5, Len(text)))
         ELSE <<text[1]>> \o collapse_abbreviations(Tail(text))

\* re.sub(r'\s+', ' ', p): every run of whitespace becomes one space
RECURSIVE collapse_whitespace(_)
collapse_whitespace(text) ==
    IF text = <<>> THEN <<>>
    ELSE IF IsSpace(text[1])
         THEN <<" ">> \o collapse_whitespace(SubSeq(text, SpaceRunEnd(text, 1) + 1, Len(text)))
         ELSE <<text[1]>> \o collapse_whitespace(Tail(text))

\* str.strip()
RECURSIVE strip(_)
strip(text) ==
    IF text = <<>> THEN <<>>
    ELSE IF IsSpace(text[1]) THEN strip(Tail(text))
    ELSE IF IsSpace(text[Len(text)]) THEN strip(SubSeq(text, 1, Len(text) - 1))
    ELSE text

\* data_cleaning.py lines 44-46, for a text of one paragraph
normalize_whitespace(text) == strip(collapse_whitespace(text))

\* data_cleaning.py lines 6-60, clean_data, for a text over StepAlphabet.
\* No line of the function changes the case of a letter.
clean_data(text) ==
    CASE OverStepAlphabet(text) ->
        normalize_whitespace(collapse_abbreviations(replace_special(text)))

\* str.split(): the maximal runs of characters that are not whitespace
RECURSIVE split(_)
split(text) ==
    LET s == strip(text)
        first == CHOOSE q \in 1..Len(s) : q = Len(s) \/ IsSpace(s[q + 1])
    IN  IF s = <<>> THEN <<>>
        ELSE <<SubSeq(s, 1, first)>> \o split(SubSeq(s, first + 1, Len(s)))

\* re.sub(r'[^\w\s]', '', text.lower())
lower_words_only(text) ==
    SelectSeq(Lower(text), LAMBDA c : IsWordChar(c) \/ IsSpace(c))

\* sentiment_analysis.py lines 10-18
POSITIVE_WORDS ==
    {<<"g", "o", "o", "d">>,
     <<"g", "r", "e", "a", "t">>,
     <<"e", "x", "c", "e", "l", "l", "e", "n", "t">>,
     <<"p", "o", "s", "i", "t", "i", "v", "e">>,
     <<"w", "o", "n", "d", "e", "r", "f", "u", "l">>,
     <<"a", "m", "a", "z", "i", "n", "g">>,
     <<"l", "o", "v", "e">>,
     <<"b", "e", "s", "t">>,
     <<"h", "a", "p", "p", "y">>,
     <<"p", "l", "e", "a", "s", "a", "n", "t">>,
     <<"f", "a", "n", "t", "a", "s", "t", "i", "c">>,
     <<"p", "e", "r", "f", "e", "c", "t">>,
     <<"b", "e", "t", "t", "e", "r">>,
     <<"n", "i", "c", "e">>}

NEGATIVE_WORDS ==
    {<<"b", "a", "d">>,
     <<"t", "e", "r", "r", "i", "b", "l", "e">>,
     <<"a", "w", "f", "u", "l">>,
     <<"n", "e", "g", "a", "t", "i", "v", "e">>,
     <<"h", "o", "r", "r", "i", "b", "l", "e">>,
     <<"h", "a", "t", "e">>,
     <<"w", "o", "r", "s", "t">>,
     <<"p", "o", "o", "r">>,
     <<"s", "a", "d">>,
     <<"u", "n", "p", "l", "e", "a", "s", "a", "n", "t">>,
     <<"d", "i", "s", "a", "p", "p", "o", "i", "n", "t", "i", "n", "g">>,
     <<"w", "o", "r", "s", "e">>,
     <<"p", "r", "o", "b", "l", "e", "m">>}

CountIn(words, S) == Cardinality({i \in DOMAIN words : words[i] \in S})

\* sentiment_analysis.py lines 38-42: (pos - neg) / max(1, word_count * 0.1)
\* clamped to [-1, 1], as the fraction num/den with den > 0; 0/1 for no word
sentiment_score(pos_count, neg_count, word_count) ==
    LET num == 10 * (pos_count - neg_count)
        den == IF word_count > 10 THEN word_count ELSE 10
    IN  IF word_count = 0 THEN [num |-> 0, den |-> 1]
        ELSE IF num > den THEN [num |-> 1, den |-> 1]
        ELSE IF num < 0 - den THEN [num |-> -1, den |-> 1]
        ELSE [num |-> num, den |-> den]

\* sentiment_analysis.py lines 20-49, analyze_sentiment; an elif: a word
\* counts as positive or, if not, as negative
analyze_sentiment(text) ==
    LET words == split(lower_words_only(text))
        pos_count == CountIn(words, POSITIVE_WORDS)
        neg_count == CountIn(words, NEGATIVE_WORDS \ POSITIVE_WORDS)
        score == sentiment_score(pos_count, neg_count, Len(words))
    IN  [score |-> score, positive_words |-> pos_count, negative_words |-> neg_count,
         classification |-> IF score.num > 0 THEN "positive"
                            ELSE IF score.num < 0 THEN "negative" ELSE "neutral"]

\* summarize.py line 58: the whitespace characters at which the text is
\* split: after ".", "?" or "!", unless the four characters before are
\* \w . \w and any character, or the three before are [A-Z][a-z] and "."
IsSentenceBreak(s, p) ==
    /\ IsSpace(s[p])
    /\ p > 1
    /\ s[p - 1] \in {".", "?", "!"}
    /\ ~(p > 4 /\ IsWordChar(s[p - 4]) /\ s[p - 3] = "." /\ IsWordChar(s[p - 2])
         /\ s[p - 1] # "\n")
    /\ ~(p > 3 /\ s[p - 3] \in {UpperLetters[i] : i \in 1..26}
         /\ s[p - 2] \in {LowerLetters[i] : i \in 1..26} /\ s[p - 1] = ".")

\* summarize.py lines 58-59: the pieces between the breaks, stripped, the
\* empty ones dropped
RECURSIVE split_sentences(_)
split_sentences(s) ==
    LET breaks == {p \in DOMAIN s : IsSentenceBreak(s, p)}
        b == SetMin(breaks)
        rest == IF breaks = {} THEN <<>> ELSE split_sentences(SubSeq(s, b + 1, Len(s)))
        piece == strip(IF breaks = {} THEN s ELSE SubSeq(s, 1, b - 1))
    IN  IF s = <<>> THEN <<>>
        ELSE (IF piece = <<>> THEN <<>> ELSE <<piece>>) \o rest

\* "\n\n".join(sentences)
RECURSIVE join_paragraphs(_)
join_paragraphs(ss) ==
    IF ss = <<>> THEN <<>>
    ELSE IF Len(ss) = 1 THEN ss[1]
    ELSE ss[1] \o <<"\n", "\n">> \o join_paragraphs(Tail(ss))

\* summarize.py line 132
DefaultSentences == 3

\* summarize.py lines 52-63, summarize_text, for a text over StepAlphabet of
\* at most num_sentences sentences (line 61 holds; lines 65-117 score and
\* select the sentences of a longer text)
summarize_text(text, num_sentences) ==
    LET sentences == split_sentences(strip(collapse_whitespace(text)))
    IN  CASE OverStepAlphabet(text) /\ Len(sentences) <= num_sentences ->
             join_paragraphs(sentences)

Scripts == {"data-cleaning", "sentiment-analysis", "text-summarization"}

\* what a script writes for the text it read
TextOut(text) == [kind |-> "text", text |-> text]
JsonOut(value) == [kind |-> "json", value |-> value]

script_result(script, data) ==
    CASE script = "data-cleaning" -> TextOut(clean_data(data))
      [] script = "sentiment-analysis" -> JsonOut(analyze_sentiment(data))
      [] script = "text-summarization" -> TextOut(summarize_text(data, DefaultSentences))

\* the input path given as argv[1], the file at the output path argv[2]
InputStates == {"missing", "unreadable", "file"}
OutputStates == {"absent", "empty", "unwritable"}

NoOutput == [kind |-> "none"]
EmptyOutput == TextOut(<<>>)

\* the try/except around the read and the write: data_cleaning.py lines
\* 65-70 and 78-83, summarize.py lines 122-127 and 144-149; none in
\* sentiment_analysis.py (lines 54-55, 63-64).  All of them exit
reports_io_error(script) == script \in {"data-cleaning", "text-summarization"}

ReadErrorText == "Error reading input file: <e>"
WriteErrorText == "Error writing output file: <e>"
TracebackText == "Traceback (most recent call last): <e>"

\* mutant: an empty text is refused like an unreadable file
read_fails_on_empty(input, text) == input # "file" \/ text = <<>>

\* open(sys.argv[1], 'r') and f.read() raise
script_read_fails(input, text) == input # "file"

\* the file at the output path when the process has exited
output_after(before, written, content) ==
    IF written THEN [exists |-> TRUE, content |-> content]
    ELSE [exists |-> before # "absent",
          content |-> IF before = "absent" THEN NoOutput ELSE EmptyOutput]

\* the __main__ block of a script, called with an input and an output path:
\* data_cleaning.py 62-85, sentiment_analysis.py 51-66, summarize.py 119-151.
\* sys.exit(1) and an uncaught exception both give exit status 1
script_main(script, input, text, out_before) ==
    IF script_read_fails(input, text)
    THEN [returncode |-> 1,
          stderr |-> IF reports_io_error(script) THEN ReadErrorText ELSE TracebackText,
          output |-> output_after(out_before, FALSE, NoOutput)]
    ELSE IF out_before = "unwritable"
    THEN [returncode |-> 1,
          stderr |-> IF reports_io_error(script) THEN WriteErrorText ELSE TracebackText,
          output |-> output_after(out_before, FALSE, NoOutput)]
    ELSE [returncode |-> 0, stderr |-> "",
          output |-> output_after(out_before, TRUE, script_result(script, text))]

(***************************************************************************)
(* The step-script specification: one run of one script on an input path   *)
(* that is missing, unreadable, or a file with one of StepTexts.           *)
(***************************************************************************)
MaxTextWords == 2

\* "This is SOME TEXT!! With punctuation, and CAPITALS."
T_sample == 
    <<"T", "h", "i", "s", " ", "i", "s", " ", "S", "O", "M", "E", " ", "T", "E", "X", "T", "!", "!", " ", "W", "i", "t", "h", " ", "p", "u", "n", "c", "t", "u", "a", "t", "i", "o", "n", ",", " ", "a", "n", "d", " ", "C", "A", "P", "I", "T", "A", "L", "S", ".">>
\* "  Good  day.  "
T_spaces == <<" ", " ", "G", "o", "o", "d", " ", " ", "d", "a", "y", ".", " ", " ">>

T_Good == <<"G", "o", "o", "d", "!">>
T_bad == <<"b", "a", "d", ".">>
T_eg == <<"e", ".", "g", ".">>
T_hash == <<"A", "#", "b", "!", "!">>

StepVocabulary == {T_Good, T_bad, T_eg, T_hash}

StepTexts ==
    {JoinWords(ws) : ws \in SeqsUpTo(StepVocabulary, MaxTextWords)} \cup {T_sample, T_spaces}

ProcStarted(script, input, text, out_before) ==
    [phase |-> "started", script |-> script, input |-> input, text |-> text,
     out_before |-> out_before, returncode |-> -1, stderr |-> "",
     output |-> output_after(out_before, FALSE, NoOutput)]

StepInit ==
    /\ use_mock = TRUE
    /\ llm_response = LLMRaise("APITimeoutError")
    /\ user_request = <<>>
    /\ input_text = Text(TextLen)
    /\ input_file = NoFile
    /\ pc = "script"
    /\ params = [k \in {} |-> TRUE]
    /\ selector_calls = <<>>
    /\ containers = <<>>
    /\ temp_dir = FALSE
    /\ temp_created = FALSE
    /\ files = NoFiles
    /\ use_parallel = FALSE
    /\ container_files = [c \in {} |-> [input |-> NoPath, output |-> NoPath]]
    /\ step = <<>>
    /\ results = <<>>
    /\ current_input = NoPath
    /\ final_output_file = NoPath
    /\ ret = NotReturned
    /\ calls = NoCalls
    /\ http = NoHttp
    /\ runs = NoRuns
    /\ disk = NoDisk
    /\ \E script \in Scripts, input \in InputStates, text \in StepTexts,
          out_before \in OutputStates :
         /\ input # "file" => text = <<>>
         /\ proc = ProcStarted(script, input, text, out_before)

\* the script runs to its exit
ScriptRun ==
    /\ pc = "script"
    /\ proc.phase = "started"
    /\ LET r == script_main(proc.script, proc.input, proc.text, proc.out_before)
       IN  proc' = [proc EXCEPT !.phase = "exited", !.returncode = r.returncode,
                                !.stderr = r.stderr, !.output = r.output]
    /\ UNCHANGED <<use_mock, llm_response, user_request, input_text, input_file, pc,
                   params, selector_calls, containers, temp_dir, temp_created, files,
                   use_parallel, container_files, step, results, current_input,
                   final_output_file, ret, calls, http, runs, disk>>

StepNext == ScriptRun

StepSpec == StepInit /\ [][StepNext]_vars

(***************************************************************************)
(* The pool specification: model-backed runs of a plan that repeats one    *)
(* name, up to one step more than the pool has workers, whose request      *)
(* asks for parallel execution; the behaviours in which nothing fails      *)
(* (a failing step is covered by the executor specification).  The run     *)
(* goes on as long as it can: weak fairness of its steps.                  *)
(***************************************************************************)
PoolSteps == PoolCeiling + 1

PoolPlans == {[i \in 1..n |-> "data-cleaning"] : n \in 2..PoolSteps}

PoolInit ==
    /\ use_mock = FALSE
    /\ \E plan \in PoolPlans :
         llm_response = LLMJson(JList([i \in DOMAIN plan |-> JStr(plan[i])]))
    /\ user_request = R_par
    /\ input_text = Text(TextLen)
    /\ input_file = NoFile
    /\ pc = "start"
    /\ params = [k \in {} |-> TRUE]
    /\ selector_calls = <<>>
    /\ containers = <<>>
    /\ temp_dir = FALSE
    /\ temp_created = FALSE
    /\ files = NoFiles
    /\ use_parallel = FALSE
    /\ container_files = [c \in {} |-> [input |-> NoPath, output |-> NoPath]]
    /\ step = <<>>
    /\ results = <<>>
    /\ current_input = NoPath
    /\ final_output_file = NoPath
    /\ ret = NotReturned
    /\ OthersIdle

\* nothing has failed: no exception left process_request, every call that
\* returned has succeeded, and no step wrote to its stderr
NothingFailed ==
    /\ ret.kind # "raise"
    /\ \A i \in DOMAIN step : step[i].fault = "" /\ step[i].stderr = ""

PoolNext ==
    /\ \/ Begin
       \/ Select
       \/ Stage
       \/ Prepare
       \/ \E i \in Positions : ParStart(i)
       \/ \E i \in Positions : ParFinish(i)
       \/ \E i \in Positions : Collect(i)
       \/ Join
       \/ Finish
    /\ NothingFailed'

PoolSpec == PoolInit /\ [][PoolNext]_vars /\ WF_vars(PoolNext)

(***************************************************************************)
(* The executor under fair scheduling: process_request and the workers of  *)
(* its pool take their next step as long as they have one.  Nothing makes  *)
(* a subprocess exit: subprocess.run (lines 74-79) has no timeout.  The    *)
(* runs are those of a request that asks for parallel execution, on a      *)
(* plan of two equal steps (parallel) or of two different steps            *)
(* (sequential).                                                           *)
(***************************************************************************)
LivePlans == {<<"data-cleaning", "data-cleaning">>, <<"data-cleaning", "text-summarization">>}

LiveInit ==
    /\ use_mock = FALSE
    /\ \E plan \in LivePlans :
         llm_response = LLMJson(JList([i \in DOMAIN plan |-> JStr(plan[i])]))
    /\ user_request = R_par
    /\ input_text = Text(TextLen)
    /\ input_file = NoFile
    /\ pc = "start"
    /\ params = [k \in {} |-> TRUE]
    /\ selector_calls = <<>>
    /\ containers = <<>>
    /\ temp_dir = FALSE
    /\ temp_created = FALSE
    /\ files = NoFiles
    /\ use_parallel = FALSE
    /\ container_files = [c \in {} |-> [input |-> NoPath, output |-> NoPath]]
    /\ step = <<>>
    /\ results = <<>>
    /\ current_input = NoPath
    /\ final_output_file = NoPath
    /\ ret = NotReturned
    /\ OthersIdle

Scheduled ==
    \/ Begin
    \/ Select
    \/ Stage
    \/ Prepare
    \/ \E i \in Positions : ParStart(i)
    \/ \E i \in Positions : Collect(i)
    \/ Join
    \/ \E i \in Positions : SeqStart(i)
    \/ \E i \in Positions : SeqNext(i)
    \/ Finish

LiveSpec == LiveInit /\ [][Next]_vars /\ WF_vars(Scheduled)

(***************************************************************************)
(* Properties.                                                             *)
(***************************************************************************)
Staged == pc \in {"prepare", "parallel", "sequential", "finish"}
SequentialRun ==
    \/ Staged /\ ~use_parallel
    \/ pc = "done" /\ ret.kind = "run" /\ ~ret.parallel
ParallelRun ==
    \/ Staged /\ use_parallel
    \/ pc = "done" /\ ret.kind = "run" /\ ret.parallel

\* C1: in sequential mode, once the step at position k has failed, no later
\* position is ever invoked (it stays pending), and when the failure has been
\* recorded the results are exactly the entries of positions 1..k: successes
\* before k, the error at k.
C1_SequentialHalt ==
    SequentialRun =>
        \A k \in DOMAIN step :
            step[k].phase = "failed" =>
                /\ \A j \in DOMAIN step : j > k => step[j].phase = "pending"
                /\ \A j \in DOMAIN step : j < k => step[j].phase = "succeeded"
                /\ step[k].collected =>
                     /\ Len(results) = k
                     /\ results[k].status = "error"
                     /\ \A j \in 1..k : results[j].container = containers[j]
                     /\ \A j \in 1..(k - 1) : results[j].status = "success"

\* C1 witness: plan of three steps, the second failed, the run returned with
\* two results and the third step never invoked
C1_Witness ==
    /\ pc = "done" /\ ret.kind = "run" /\ ~ret.parallel
    /\ Len(containers) = 3
    /\ step[2].phase = "failed"
    /\ step[3].phase = "pending"
    /\ Len(ret.results) = 2

\* C2: in parallel mode the output paths of two different positions of the
\* run that were handed to a worker are different.
C2_DisjointOutputPaths ==
    ParallelRun =>
        \A i, j \in DOMAIN step :
            (i # j /\ step[i].phase # "pending" /\ step[j].phase # "pending")
                => step[i].output # step[j].output

\* C3: in parallel mode the final output of the returned run record, when it
\* was read, is content written by the last-declared position of the plan.
C3_FinalOutputOfLastDeclared ==
    (pc = "done" /\ ret.kind = "run" /\ ret.parallel /\ ret.output # NoContent)
        => ret.output.by = Len(containers)

\* C4: in parallel mode the run record is produced only after every position
\* of the plan reached a terminal state, whatever its siblings did, and the
\* results hold one entry per position: as many entries as positions, as many
\* errors as failed positions.
C4_ParallelJoinsAll ==
    (ParallelRun /\ pc \in {"finish", "done"}) =>
        /\ \A i \in DOMAIN step : IsTerminal(step, i) /\ step[i].collected
        /\ Len(results) = Len(containers)
        /\ Cardinality({n \in DOMAIN results : results[n].status = "error"})
             = Cardinality({i \in DOMAIN step : step[i].phase = "failed"})
        /\ pc = "done" => ret.results = results

\* C4 witness: a parallel run returned in which the first position failed
\* and the second succeeded
C4_Witness ==
    /\ pc = "done" /\ ret.kind = "run" /\ ret.parallel
    /\ step[1].phase = "failed"
    /\ step[2].phase = "succeeded"

\* C5: parallel mode is used if and only if a parallel hint was extracted,
\* the plan has more than one step and all planned names are identical; a
\* run that is not eligible never has two steps running at once.
C5_Eligible ==
    /\ "parallel_execution" \in DOMAIN params
    /\ Len(containers) > 1
    /\ \A i, j \in DOMAIN containers : containers[i] = containers[j]

C5_ParallelIffEligible ==
    /\ Staged => (use_parallel <=> C5_Eligible)
    /\ pc \in {"prepare", "parallel"} => C5_Eligible
    /\ pc = "sequential" => ~C5_Eligible
    /\ (pc = "done" /\ ret.kind = "run") => (ret.parallel <=> C5_Eligible)
    /\ (pc # "start" /\ ~C5_Eligible) => Cardinality(Running(step)) <= 1

\* C5 witness: plan [A, A] with a hint, both steps running at the same time
C5_Witness ==
    /\ pc = "parallel"
    /\ Len(containers) = 2
    /\ Running(step) = {1, 2}

\* C6: when process_request has ended and the temporary directory had been
\* created, the directory and every file in it are gone and no step is
\* still running.
C6_TempDirRemoved ==
    (pc = "done" /\ temp_created) =>
        /\ ~temp_dir
        /\ files = NoFiles
        /\ \A i \in DOMAIN step : step[i].phase # "running"

\* C6 witness: the run ended by an exception after the directory was created
C6_Witness == pc = "done" /\ temp_created /\ ret.kind = "raise"

\* C7: when the selector returned an empty plan, process_request has ended
\* with the record that carries only the empty-plan error, no temporary
\* directory was created and no step was invoked.
C7_EmptyPlanFailsFast ==
    (selector_calls # <<>>
     /\ determine_containers(use_mock, llm_response, user_request) = Return(<<>>))
        => /\ pc = "done"
           /\ ret = [kind |-> "error", error |-> "Could not determine which containers to run"]
           /\ ~temp_created /\ ~temp_dir /\ files = NoFiles
           /\ step = <<>> /\ results = <<>>

\* C7 witness: the classifier answered with an empty array
C7_Witness ==
    /\ pc = "done"
    /\ llm_response = LLMJson(JList(<<>>))
    /\ ret.kind = "error"
    /\ selector_calls # <<>>

\* C8: when the input is missing, empty or unreadable, process_request has
\* ended with an error record, the selector was not consulted and no step
\* ran; the error of an unreadable file, the no-input error and the
\* empty-plan error are three different values.
C8_BadInput == input_text.none \/ input_text.len = 0

C8_InputErrors ==
    /\ (pc # "start" /\ C8_BadInput) =>
          /\ pc = "done"
          /\ ret.kind = "error"
          /\ ret.error = IF input_text.none /\ input_file.given
                         THEN "Could not read input file: <e>"
                         ELSE "No input text provided"
          /\ selector_calls = <<>>
          /\ step = <<>> /\ results = <<>> /\ ~temp_created
    /\ (pc = "done" /\ ret.kind = "error" /\ ~C8_BadInput) =>
          /\ ret.error = "Could not determine which containers to run"
          /\ selector_calls # <<>>
    /\ Cardinality({ReadInputError, NoInputError, NoPlanError}) = 3

\* C8 witness: an empty text was passed and the run ended with the no-input error
C8_Witness ==
    /\ pc = "done"
    /\ ~input_text.none /\ input_text.len = 0
    /\ ret = ErrorRecord(NoInputError)

\* C9: determine_containers never raises: whatever the classifier call does,
\* the call returns a list whose elements are names of the registry.
C9_NeverRaises ==
    pc = "sel_done" =>
        /\ ret.kind = "plan"
        /\ \A i \in DOMAIN ret.plan : ret.plan[i] \in available_containers

\* C9 witness: the response was a list with a value that cannot be hashed
\* (a TypeError inside the validation loop) and the call returned
C9_Witness ==
    /\ pc = "sel_done"
    /\ ~use_mock
    /\ llm_response = LLMJson(JList(<<JStr("data-cleaning"), JList(<<>>)>>))
    /\ ret.kind = "plan"

C11_FailureCase ==
    /\ pc = "sel_done"
    /\ ~use_mock
    /\ llm_response.kind \in {"raise", "nonjson"}
    /\ user_request = R_clean_this_text

C12_OtherShape ==
    /\ pc = "sel_done"
    /\ ~use_mock
    /\ llm_response.kind = "json"
    /\ llm_response.value.t # "list"
    /\ ~(llm_response.value.t = "dict" /\ llm_response.value.items # <<>>
         /\ llm_response.value.s = "containers")

C12_OtherShapeFallsBack ==
    C12_OtherShape =>
        /\ ret.kind = "plan"
        /\ ret.plan # <<>>
        /\ ret.plan = mock_determine_containers(user_request)

\* the names of a JSON list that are names of the registry, in the order
\* of the list and as often as the list has them
RECURSIVE C13_Kept(_)
C13_Kept(xs) ==
    IF xs = <<>> THEN <<>>
    ELSE IF Head(xs).t = "str" /\ Head(xs).s \in available_containers
         THEN <<Head(xs).s>> \o C13_Kept(Tail(xs))
         ELSE C13_Kept(Tail(xs))

\* the name list of a response of one of the two accepted shapes
C13_IsNameList(v) == v.t = "list" /\ \A i \in DOMAIN v.items : v.items[i].t \in {"str", "num"}

C13_NameList ==
    IF llm_response.value.t = "list" THEN llm_response.value
    ELSE llm_response.value.items[1]

C13_AcceptedShape ==
    /\ ~use_mock
    /\ llm_response.kind = "json"
    /\ \/ llm_response.value.t = "list"
       \/ /\ llm_response.value.t = "dict"
          /\ llm_response.value.items # <<>>
          /\ llm_response.value.s = "containers"
    /\ C13_IsNameList(C13_NameList)

\* C13: every name of a plan determine_containers returns, in either mode, is
\* a name of the registry; for a name list of an accepted shape with at least
\* one registry name (or no name at all), the plan is the list without its
\* unknown names, in the classifier's order, duplicates included.
C13_PlanNamesInRegistry ==
    pc = "sel_done" =>
        /\ ret.kind = "plan"
        /\ \A i \in DOMAIN ret.plan :
             ret.plan[i] \in {"data-cleaning", "sentiment-analysis", "text-summarization"}
        /\ (C13_AcceptedShape
            /\ (C13_NameList.items = <<>> \/ C13_Kept(C13_NameList.items) # <<>>))
               => ret.plan = C13_Kept(C13_NameList.items)

\* C13 witness: an object whose `containers` list names an unknown step and
\* then a known one
C13_Witness ==
    /\ pc = "sel_done"
    /\ ~use_mock
    /\ llm_response = LLMJson(JDict("containers",
                          JList(<<JStr("bogus"), JStr("text-summarization")>>)))
    /\ ret = [kind |-> "plan", plan |-> <<"text-summarization">>]

\* C14: a non-empty name list of which no name is in the registry makes the
\* selector return the heuristic plan of the request, not an empty plan.
C14_NoValidName ==
    /\ pc = "sel_done"
    /\ ~use_mock
    /\ llm_response.kind = "json"
    /\ \/ llm_response.value.t = "list"
       \/ /\ llm_response.value.t = "dict"
          /\ llm_response.value.items # <<>>
          /\ llm_response.value.s = "containers"
    /\ C13_NameList.t = "list"
    /\ C13_NameList.items # <<>>
    /\ C13_Kept(C13_NameList.items) = <<>>

C14_NoValidNameFallsBack ==
    C14_NoValidName =>
        /\ ret.kind = "plan"
        /\ ret.plan # <<>>
        /\ ret.plan = mock_determine_containers(user_request)

\* C14 witness: the classifier named one unknown step, for a request that
\* the heuristic selector answers with two steps
C14_Witness ==
    /\ C14_NoValidName
    /\ llm_response = LLMJson(JList(<<JStr("bogus")>>))
    /\ Len(ret.plan) = 2

\* C15: a fault inside one step's call (the output file cannot be created or
\* read back, the subprocess cannot be launched) ends that call with a
\* result of status error for that step's container and never leaves
\* process_request: an exception leaves process_request only before any step
\* was set up; and a parallel run that has left the pool holds one result for
\* every position, those of the faulted call's siblings included.
C15_Faulted(i) == step[i].fault \in {"OSError", "FileNotFoundError"}

C15_FaultsBecomeErrorResults ==
    /\ \A i \in DOMAIN step :
         C15_Faulted(i) =>
            /\ step[i].phase = "failed"
            /\ step[i].result.status = "error"
            /\ step[i].result.container = containers[i]
            /\ step[i].collected =>
                 \E k \in DOMAIN results : results[k] = step[i].result
    /\ (pc = "done" /\ ret.kind = "raise") => step = <<>>
    /\ (use_parallel /\ pc \in {"finish", "done"} /\ \E i \in DOMAIN step : C15_Faulted(i)) =>
         /\ Len(results) = Len(containers)
         /\ \A i \in DOMAIN step : step[i].collected
         /\ pc = "done" => (ret.kind = "run" /\ ret.results = results)

\* C15 witness: a parallel run has returned; the subprocess of one position
\* could not be launched, the other position succeeded, both have a result
C15_Witness ==
    /\ pc = "done"
    /\ use_parallel
    /\ ret.kind = "run"
    /\ Len(ret.results) = 2
    /\ \E i, j \in DOMAIN step :
         /\ step[i].fault = "FileNotFoundError"
         /\ step[j].phase = "succeeded"
         /\ \E k \in DOMAIN ret.results : ret.results[k].status = "success"
         /\ \E k \in DOMAIN ret.results : ret.results[k] = step[i].result

\* C16: process_request lets an exception out only when the temporary
\* directory could not be created; every other failure, a failed write of
\* the staged input file included, ends in a returned record.
C16_OnlyMkdtempPropagates ==
    (pc = "done" /\ ret.kind = "raise") => ~temp_created

\* C17: a step whose subprocess has exited with a non-zero status has a result
\* of status error whose error field is the captured stderr text, or
\* "Unknown error occurred" when that text is empty; never status success.
C17_NonZeroExitIsError ==
    \A i \in DOMAIN step :
        step[i].returncode > 0 =>
            /\ step[i].phase = "failed"
            /\ step[i].result.status = "error"
            /\ step[i].result.container = containers[i]
            /\ step[i].stderr # "" => step[i].result.error = step[i].stderr
            /\ step[i].stderr = "" => step[i].result.error = "Unknown error occurred"
            /\ \A k \in DOMAIN results :
                 (~use_parallel /\ k = i) => results[k] = step[i].result

\* C17 witness: a run has returned whose first step exited non-zero with an
\* empty stderr
C17_Witness ==
    /\ pc = "done"
    /\ ret.kind = "run"
    /\ step[1].returncode > 0
    /\ step[1].stderr = ""
    /\ ret.results[1].status = "error"
    /\ ret.results[1].error = "Unknown error occurred"

\* C18: in every state of a run, sequential or parallel, there are at most as
\* many step results as steps in the plan, in the run's list and in the
\* record it returns.
C18_ResultsWithinPlan ==
    /\ Len(results) <= Len(containers)
    /\ (pc = "done" /\ ret.kind = "run") => Len(ret.results) <= Len(ret.execution_plan)

\* C18 witness: a returned run of two steps with two results
C18_Witness ==
    /\ pc = "done"
    /\ ret.kind = "run"
    /\ Len(ret.execution_plan) = 2
    /\ Len(ret.results) = 2

\* the keyword groups of the three steps, and whether the request matches one
C19_Groups ==
    <<[name |-> "data-cleaning", words |-> {K_clean, K_remove}],
      [name |-> "sentiment-analysis",
       words |-> {K_sentiment, K_analyze, K_feeling, K_emotion, K_positive, K_negative}],
      [name |-> "text-summarization",
       words |-> {K_summarize, K_summary, K_shorten, K_brief, K_concise}]>>

C19_Matches(g) == \E k \in g.words : Contains(Lower(user_request), k)

C19_Matched == SelectSeq(C19_Groups, C19_Matches)

\* C19: for a request that matches at least one keyword group, the heuristic
\* selector returns the steps of the matched groups and no other, each once,
\* in the order data-cleaning, sentiment-analysis, text-summarization; a
\* request that matches exactly one group gets a plan of one step.
C19_PlanIsMatchedGroups ==
    (pc = "heur_done" /\ C19_Matched # <<>>) =>
        /\ ret = [kind |-> "plan", plan |-> [i \in 1..Len(C19_Matched) |-> C19_Matched[i].name]]
        /\ Len(C19_Matched) = 1 => Len(ret.plan) = 1

\* C19 witness: the keywords come in the reverse of the registry order, two
\* of them of one group
C19_Witness ==
    /\ pc = "heur_done"
    /\ user_request = JoinWords(<<W_brief, W_Feeling, W_ANALYZE>>)
    /\ ret.plan = <<"sentiment-analysis", "text-summarization">>

\* C20: the heuristic selector returns a non-empty plan for every request,
\* the empty one included; a request that matches no keyword group gets the
\* plan ["data-cleaning"].
C20_HeuristicPlanNonEmpty ==
    pc = "heur_done" =>
        /\ ret.kind = "plan"
        /\ Len(ret.plan) >= 1
        /\ C19_Matched = <<>> => ret.plan = <<"data-cleaning">>

\* C20 witness: the empty request
C20_Witness ==
    /\ pc = "heur_done"
    /\ user_request = <<>>
    /\ ret.plan = <<"data-cleaning">>

C22_PhraseAt(s, p) ==
    /\ TailOk(s, p)
    /\ \E i \in 1..Len(s) :
         /\ HasAt(s, K_summarize, i)
         /\ \E a \in (i + 9)..(p - 2), b \in (i + 10)..(p - 1) :
              /\ a < b
              /\ \A j \in (i + 9)..a : IsSpace(s[j])
              /\ \A j \in b..(p - 1) : IsSpace(s[j])
              /\ \A j \in (a + 1)..(b - 1) : s[j] # "\n"

C22_Phrases(s) == {p \in 1..Len(s) : C22_PhraseAt(s, p)}

C22_Number(s, p) ==
    ToInt(SubSeq(s, SpaceRunEnd(s, p + 2) + 1, DigitRunEnd(s, SpaceRunEnd(s, p + 2) + 1)))

C22_HasHint(s) == Contains(s, K_parallel) \/ Contains(s, K_concurrently)

\* the map of a call that returned is as C22 says
C22_MapOfReturn ==
    (pc = "param_done" /\ ret.kind = "params") =>
        LET s == Lower(user_request)
            m == ret.params
        IN  /\ DOMAIN m \subseteq {"summary_length", "parallel_execution"}
            /\ "summary_length" \in DOMAIN m <=> C22_Phrases(s) # {}
            /\ "summary_length" \in DOMAIN m =>
                 \E p \in C22_Phrases(s) : m["summary_length"] = C22_Number(s, p)
            /\ "parallel_execution" \in DOMAIN m <=> C22_HasHint(s)
            /\ "parallel_execution" \in DOMAIN m => m["parallel_execution"] = TRUE
            /\ user_request = R_summ => m = [k \in {"summary_length"} |-> 2]

\* C22: extract_parameters never raises, and the map it returns has a length
\* entry N exactly when the lower-cased request has "summarize ... to N
\* sentences", a parallel entry true exactly when the request has "parallel"
\* or "concurrently" in any letter case, and no other entry.
C22_ExtractNeverRaises ==
    /\ pc = "param_done" => ret.kind = "params"
    /\ C22_MapOfReturn

\* the run passed the input and plan preconditions of lines 134-142
C23_PassedPreconditions ==
    /\ pc = "done"
    /\ selector_calls # <<>>
    /\ containers # <<>>

C24_Live == {r \in RunIds : runs[r].pc = "run"}

\* C24: concurrent invocations of process_request on one Orchestrator share
\* no run state: two runs never hold the same temporary directory, every
\* file of a run's directory was written by that run, a run's staged input
\* is there as long as the run lasts, every step read a file its own run
\* wrote, every result of a run's list is of that run, the output a run
\* returns was written by that run, and each run's pool is bounded by its
\* own plan.
C24_RunsShareNothing ==
    /\ \A r1, r2 \in C24_Live : r1 # r2 => runs[r1].dir # runs[r2].dir
    /\ \A d \in DOMAIN disk : \A f \in DOMAIN disk[d] :
         \E r \in C24_Live : runs[r].dir = d /\ disk[d][f].run = r
    /\ \A r \in C24_Live :
         DiskRead(disk, runs[r].dir, InputPath) = RunFile(r, "input", 0)
    /\ \A r \in RunIds :
         /\ \A k \in DOMAIN runs[r].results :
              /\ runs[r].results[k].run = r
              /\ runs[r].results[k].read.run = r
         /\ Len(runs[r].results) <= Len(runs[r].plan)
         /\ Cardinality(runs[r].inflight) <= max_workers(runs[r].plan)
         /\ runs[r].pc = "done" => runs[r].output.run = r

\* C24 witness: two runs are in their steps at the same time, each in its own
\* directory, one of them in parallel mode, and each has a result
C24_Witness ==
    /\ C24_Live = {1, 2}
    /\ runs[1].parallel /\ ~runs[2].parallel
    /\ runs[1].inflight # {} /\ runs[2].inflight # {}
    /\ runs[1].results # <<>> /\ runs[2].results # <<>>
    /\ Cardinality(DOMAIN disk) = 2

\* C25: the /process front end answers a body without a (non-empty)
\* `request` or `text` with status 400 and never calls the core; it answers
\* an exception of the core with status 500 and the exception's message as
\* `error`; it answers a record the core returned, an error record
\* included, with status 200 and that record as the body.
C25_FieldMissing ==
    field_is_falsy(http.request_field) \/ field_is_falsy(http.text_field)

C25_TransportAndDomainDistinct ==
    /\ http.core_calls <= 1
    /\ C25_FieldMissing =>
         /\ pc \in {"http", "http_done"}
         /\ http.core_calls = 0
         /\ ret = NotReturned
         /\ selector_calls = <<>>
    /\ pc = "http_done" =>
         /\ C25_FieldMissing =>
              (http.status = 400 /\ http.body = [kind |-> "error", error |-> RequiredError])
         /\ ~C25_FieldMissing =>
              /\ http.core_calls = 1
              /\ ret.kind \in {"raise", "error", "run"}
              /\ ret.kind = "raise" =>
                   (http.status = 500 /\ http.body.error = str_of(ret.exc))
              /\ ret.kind = "error" =>
                   (http.status = 200 /\ http.body.error = ret.error)
              /\ ret.kind = "run" => (http.status = 200 /\ http.body = ret)

\* C25 witness: the core returned the empty-plan error record and the front
\* end answered 200 with that error in the body
C25_Witness ==
    /\ pc = "http_done"
    /\ http.core_calls = 1
    /\ ret = ErrorRecord(NoPlanError)
    /\ http.status = 200
    /\ http.body.error = NoPlanError

C26_Cleaned ==
    /\ pc = "script"
    /\ proc.phase = "exited"
    /\ proc.script = "data-cleaning"
    /\ proc.returncode = 0

\* C26 (as stated): the cleaning step's output equals its own lowercasing
\* and contains no "!!"; on the sample sentence it contains "text" and does
\* not contain "CAPITALS".  clean_data has no lowercasing step and keeps "!",
\* so the sample sentence comes out unchanged.
C26_OutputLowercased ==
    C26_Cleaned =>
        /\ proc.output.content.text = Lower(proc.output.content.text)
        /\ ~Contains(proc.output.content.text, <<"!", "!">>)
        /\ proc.text = T_sample =>
             /\ Contains(proc.output.content.text, <<"t", "e", "x", "t">>)
             /\ ~Contains(proc.output.content.text,
                          <<"C", "A", "P", "I", "T", "A", "L", "S">>)

C27_EmptyInput ==
    /\ pc = "script"
    /\ proc.phase = "exited"
    /\ proc.input = "file"
    /\ proc.text = <<>>
    /\ proc.out_before # "unwritable"

\* C27: each of the three scripts, given an existing empty input file (and
\* an output path it can write), exits with status 0 and leaves an output
\* file: empty text from the cleaning and the summarization script, the
\* neutral record from the sentiment script.
C27_EmptyInputExitsZero ==
    C27_EmptyInput =>
        /\ proc.returncode = 0
        /\ proc.output.exists
        /\ proc.script \in {"data-cleaning", "text-summarization"} =>
             proc.output.content = EmptyOutput
        /\ proc.script = "sentiment-analysis" =>
             /\ proc.output.content.kind = "json"
             /\ proc.output.content.value.score.num = 0
             /\ proc.output.content.value.classification = "neutral"

C27_Witness ==
    /\ C27_EmptyInput
    /\ proc.script = "sentiment-analysis"
    /\ proc.out_before = "absent"
    /\ proc.returncode = 0
    /\ proc.output.exists

\* C28 (as stated): each of the three scripts, given an input path that is
\* missing or unreadable, exits with status 0 and produces an output file.
\* Every script ends with status 1 before it opens the output path.
C28_MissingInputExitsZero ==
    (/\ pc = "script"
     /\ proc.phase = "exited"
     /\ proc.input \in {"missing", "unreadable"})
        => proc.returncode = 0 /\ proc.output.exists

\* C29: in sequential mode at most one step is running at any time and the
\* steps run in plan order: a position that was started is the first one
\* and has the staged original input as its input, or follows a position
\* that succeeded and has that position's output file as its input, and,
\* while the run is in progress, that file holds what the earlier position
\* wrote.
C29_SequentialChain ==
    SequentialRun =>
        /\ Cardinality(Running(step)) <= 1
        /\ \A i \in DOMAIN step :
             step[i].phase # "pending" =>
                /\ i = 1 =>
                     /\ step[i].input = InputPath
                     /\ Staged => files[InputPath] = InputContent
                /\ i > 1 =>
                     /\ step[i - 1].phase = "succeeded"
                     /\ step[i - 1].collected
                     /\ step[i].input = step[i - 1].output
                     /\ step[i].input = OutputPath(i - 2)
                     /\ Staged => files[step[i].input] = OutputBy(i - 1)

\* C29 witness: the second position of a sequential run is running on the
\* output file of the first, which succeeded
C29_Witness ==
    /\ pc = "sequential"
    /\ Len(containers) >= 2
    /\ step[1].phase = "succeeded"
    /\ step[2].phase = "running"
    /\ step[2].input = OutputPath(0)
    /\ files[OutputPath(0)] = OutputBy(1)

C30_PositionStep ==
    /\ \A i \in DOMAIN step \cap DOMAIN step' :
         /\ step[i].phase = "pending" =>
              step'[i].phase \in {"pending", "running", "failed"}
         /\ step[i].phase = "running" =>
              step'[i].phase \in {"running", "succeeded", "failed"}
         /\ IsTerminal(step, i) =>
              /\ step'[i].phase = step[i].phase
              /\ step'[i].result = step[i].result
    /\ Len(results') >= Len(results)
    /\ \A j \in DOMAIN results : results'[j] = results[j]

\* C30: in every step of a run each planned position stays where it is or
\* goes from pending to running (or to failed, when the call fails before
\* the launch) and from running to succeeded or failed; a position that
\* succeeded or failed keeps its phase and its result for ever, so it is
\* never called again, and an entry of the results never changes.
C30_TerminalIsFinal == [][C30_PositionStep]_vars

\* C30 witness: a parallel run has returned with one position failed and
\* another succeeded, both recorded
C30_Witness ==
    /\ pc = "done" /\ ret.kind = "run" /\ ret.parallel
    /\ \E i, j \in DOMAIN step :
         /\ step[i].phase = "failed" /\ step[i].collected
         /\ step[j].phase = "succeeded" /\ step[j].collected
    /\ Len(ret.results) = Len(containers)

C33_Invoked(i) == i \in DOMAIN step /\ step[i].argv # <<>>

\* C33: every step that was invoked was given the input and the output
\* path as its first two arguments, followed by the extracted length if and
\* only if the step is text-summarization and the request carries a length;
\* no other step was given a third argument, and no step a fourth.
C33_StepArguments ==
    \A i \in DOMAIN step :
        /\ step[i].phase \in {"running", "succeeded"} => C33_Invoked(i)
        /\ C33_Invoked(i) =>
             /\ Len(step[i].argv) \in {2, 3}
             /\ step[i].argv[1] = PathArg("/app/input.txt")
             /\ step[i].argv[2] = PathArg("/app/output.txt")
             /\ Len(step[i].argv) = 3 <=>
                  (containers[i] = "text-summarization" /\ "summary_length" \in DOMAIN params)
             /\ Len(step[i].argv) = 3 =>
                  step[i].argv[3] = LengthArg(params["summary_length"])

\* C33 witness: in one run the cleaning step was invoked with two arguments
\* and the summarization step with the length 2 after them
C33_Witness ==
    /\ "summary_length" \in DOMAIN params
    /\ \E i, j \in DOMAIN step :
         /\ containers[i] = "data-cleaning" /\ Len(step[i].argv) = 2
         /\ containers[j] = "text-summarization" /\ Len(step[j].argv) = 3
         /\ step[j].argv[3] = LengthArg(2)

\* a sequential run has returned its record after the step at position k failed
C34_HaltedAt(k) ==
    /\ pc = "done" /\ ret.kind = "run" /\ ~ret.parallel
    /\ k \in DOMAIN step
    /\ step[k].phase = "failed"

\* what the step before position k left for it: the staged original input
\* for the first position, the output of the previous position otherwise
C34_Before(k) == IF k = 1 THEN InputContent ELSE OutputBy(k - 1)

\* C34 (as stated): in sequential mode, when the step at position k fails,
\* the reported output is the content written by the step before it, or the
\* original input when k is the first position.  The final read of lines
\* 229-233 may fail, and then the reported output is the empty string.
C34_OutputIsPreviousContent ==
    \A k \in DOMAIN step : C34_HaltedAt(k) => ret.output = C34_Before(k)

\* C34 (amended): in sequential mode, when the step at position k fails,
\* the reported output is the content written by the step before it (the
\* original input when k is the first position), or the empty string when
\* that file cannot be read; it is never what the failed step wrote or the
\* empty file created for it.
C34_OutputIsPreviousOrEmpty ==
    \A k \in DOMAIN step :
        C34_HaltedAt(k) =>
            /\ ret.output \in {C34_Before(k), NoContent}
            /\ ret.output \notin {OutputBy(k), EmptyBy(k)}
            /\ final_output_file = step[k].input
            /\ final_output_file # step[k].output

\* C34 witness: the second step failed after writing its output file, and
\* the run reports the output of the first step
C34_Witness ==
    /\ C34_HaltedAt(2)
    /\ step[2].returncode = 1
    /\ ret.output = OutputBy(1)

\* C35: in sequential mode the results are always a prefix of the plan: the
\* i-th result is the result of the i-th planned step and names it, and
\* every result but the last has status success.
C35_ResultsPrefixOfPlan ==
    SequentialRun =>
        /\ Len(results) <= Len(containers)
        /\ \A j \in DOMAIN results :
             /\ results[j].container = containers[j]
             /\ results[j] = step[j].result
             /\ j < Len(results) => results[j].status = "success"
        /\ pc = "done" => ret.results = results

\* C35 witness: a run of two different steps halted on the second: two
\* results in plan order, a success and then an error
C35_Witness ==
    /\ pc = "finish" /\ ~use_parallel
    /\ Len(containers) = 2 /\ containers[1] # containers[2]
    /\ Len(results) = 2
    /\ results[1].status = "success"
    /\ results[2].status = "error"

C36_NoRepeatedName(plan) == \A i, j \in DOMAIN plan : plan[i] = plan[j] => i = j

\* C36: with the heuristic selector the plan never repeats a name and the
\* run is never parallel, with or without a parallel hint in the request,
\* and its record reports parallel = false; the same holds whenever the plan
\* is the heuristic's (after a classifier failure).  A parallel run has a
\* plan that came from the classifier's JSON answer and repeats one name.
C36_HeuristicNeverParallel ==
    /\ (use_mock /\ pc \notin {"start", "select"}) =>
          /\ C36_NoRepeatedName(containers)
          /\ ~use_parallel
          /\ (pc = "done" /\ ret.kind = "run") => ~ret.parallel
    /\ (llm_response.kind # "json" /\ pc \notin {"start", "select"}) => ~use_parallel
    /\ use_parallel =>
          /\ ~use_mock
          /\ llm_response.kind = "json"
          /\ Len(containers) > 1
          /\ \A i \in DOMAIN containers : containers[i] = containers[1]

\* C36 witness: a heuristic run of a two-step plan whose request asks for
\* concurrent execution has returned, and was sequential
C36_Witness ==
    /\ use_mock
    /\ params_parallel(params)
    /\ Len(containers) = 2
    /\ pc = "done" /\ ret.kind = "run" /\ ~ret.parallel
    /\ Len(ret.results) = 2

\* C37: from staging to the end of the run the staged input file holds the
\* original text: the output path of every step that was called differs
\* from the staged input path, and no file but a step's output path is
\* written; in parallel mode every step that was called reads the staged
\* input.
C37_StagedInputKept ==
    Staged =>
        /\ InputPath \in DOMAIN files
        /\ files[InputPath] = InputContent
        /\ \A i \in DOMAIN step :
             step[i].phase # "pending" =>
                /\ step[i].output # InputPath
                /\ use_parallel => step[i].input = InputPath
        /\ \A q \in DOMAIN files :
             q # InputPath => \E i \in DOMAIN step : q = step[i].output

\* C37 witness: two steps of a parallel run have written their output, both
\* were given the staged input, and it still holds the original text
C37_Witness ==
    /\ pc = "parallel"
    /\ \E i, j \in DOMAIN step :
         /\ i # j
         /\ step[i].phase = "succeeded" /\ step[j].phase = "succeeded"
         /\ step[i].input = InputPath /\ step[j].input = InputPath
    /\ files[InputPath] = InputContent

\* a parsed answer that carries no names: an empty array, a `containers`
\* entry that is an empty list, string or object, or a value that is
\* neither an array nor an object with a `containers` entry
C38_NoNames(v) ==
    \/ v = JList(<<>>)
    \/ HasContainersKey(v) /\ v.items[1] \in {JList(<<>>), JStr(""), JEmptyDict}
    \/ v.t # "list" /\ ~HasContainersKey(v)

C39_InputRejected ==
    \/ ret = ErrorRecord(ReadInputError)
    \/ ret = ErrorRecord(NoInputError)
    \/ ret = Raised("ValueError")

\* C39: the selector is consulted at most once in a run; a run that passed
\* input validation and went on has consulted it exactly once, with the
\* request as it was given and a sample whose length is that of the input
\* or 100, whichever is smaller; the temporary directory exists and a step
\* was called only after the selector was consulted; a run whose input was
\* rejected has not consulted it.
C39_SelectorConsultedOnce ==
    /\ Len(selector_calls) <= 1
    /\ (pc \notin {"start", "select"} /\ ~C39_InputRejected) =>
          /\ Len(selector_calls) = 1
          /\ selector_calls[1].user_request = user_request
          /\ selector_calls[1].sample_text <= SampleLimit
          /\ selector_calls[1].sample_text <= input_text.len
          /\ selector_calls[1].sample_text \in {SampleLimit, input_text.len}
    /\ selector_calls = <<>> =>
          /\ ~temp_created
          /\ files = NoFiles
          /\ step = <<>>
    /\ C39_InputRejected => selector_calls = <<>>
    /\ pc \in {"start", "select"} => selector_calls = <<>>

\* C39 witness: a run on an input longer than the limit has returned its
\* record after steps ran; the selector was consulted once, with a sample
\* of 100 characters
C39_Witness ==
    /\ pc = "done" /\ ret.kind = "run"
    /\ input_text.len > SampleLimit
    /\ Len(selector_calls) = 1
    /\ selector_calls[1].sample_text = SampleLimit
    /\ \E i \in DOMAIN step : step[i].phase = "succeeded"

C31_Limit == IF Len(containers) < PoolCeiling THEN Len(containers) ELSE PoolCeiling

C31_AllStarted == \A i \in DOMAIN step : step[i].phase # "pending"

C32_NoStepRunning == Running(step) = {}

\* C32: under fair scheduling, if every subprocess that was started
\* eventually exits (so that again and again no step is running), a run
\* that staged its input eventually returns a run record, in sequential
\* and in parallel mode; and if from some point on a subprocess is running
\* for ever, process_request never returns.
C32_ReturnsIffStepsExit ==
    /\ []<>C32_NoStepRunning => [](Staged => <>(pc = "done" /\ ret.kind = "run"))
    /\ <>[]~C32_NoStepRunning => [](ret = NotReturned)

\* C32 witness: a parallel run has returned its record after one of its
\* subprocesses exited with an error and another with success
C32_Witness ==
    /\ pc = "done" /\ ret.kind = "run"
    /\ \E i, j \in DOMAIN step :
         /\ step[i].returncode = 0 /\ step[i].phase = "succeeded"
         /\ step[j].returncode = 1
    /\ Running(step) = {}

====
